---- MODULE Spec2Model ----
(***************************************************************************)
(* Authentication backend (fastapi-starter): session lifecycle,            *)
(* email-verification and password-reset workflows.                        *)
(*                                                                         *)
(* Every HTTP request is an independent coroutine with its own database    *)
(* session; it can be suspended at every `await`, so one action of this    *)
(* module is the code between two awaits of one request.  All repository   *)
(* calls commit on their own (PostgreSQL, READ COMMITTED), hence every     *)
(* SELECT / INSERT / UPDATE / DELETE is atomic on the shared tables.       *)
(*                                                                         *)
(* Time is counted in minutes.  A datetime is a record [t, aware]: the     *)
(* instant and whether the Python value carries a tzinfo.  Python refuses  *)
(* to order a naive and an aware datetime (TypeError).                     *)
(***************************************************************************)
EXTENDS Integers, Sequences, FiniteSets, TLC

VARIABLES
    clock,              \* the wall clock (UTC), in minutes
    ticks,              \* how often the clock advanced (bounds the model)
    users,              \* table users:         id -> [email, email_verified, deleted_at]
    accounts,           \* table accounts:      id -> [user_id, email, password]
    sessions,           \* table sessions:      id -> [user_id, token, expires_at]
    verifications,      \* table verifications: id -> [identifier, user_id, value, expires_at]
    next_session,       \* next fresh session id / token (uuid4, secrets.token_urlsafe)
    next_verification,  \* next fresh verification id / value
    roles,              \* table roles:         id -> [name, is_active, deleted_at]
    req                 \* the requests in flight: process -> its frame

vars == <<clock, ticks, users, accounts, sessions, verifications,
          next_session, next_verification, roles, req>>

----------------------------------------------------------------------------
(* Bounds of the model *)

MaxSessions == 2
MaxVerifications == 2
MaxTicks == 2
MaxRoles == 3
MaxTotal == 5

Procs == {"r1", "r2"}

----------------------------------------------------------------------------
(* Program constants *)

SESSION_EXPIRES_DAYS == 30
JWT_EXPIRES_DAYS == 7
EMAIL_VERIFICATION_EXPIRES_HOURS == 1
PASSWORD_RESET_EXPIRES_MINUTES == 30

EMAIL_VERIFICATION == "email_verification"
PASSWORD_RESET == "password_reset"

\* datetime.timedelta(days=d), timedelta(hours=h), in minutes
Days(d) == d * 24 * 60
Hours(h) == h * 60

UserIds == {1, 2}
Emails == {"a@x.com", "b@x.com", "c@x.com"}
Passwords == {"pw1", "pw2"}
SessionIds == 1..MaxSessions
VerificationIds == 1..MaxVerifications

\* secrets.token_urlsafe(32): a fresh value each call
SessionToken(n) == <<"st", n>>
VerificationValue(n) == <<"vt", n>>
SessionTokens == {SessionToken(n) : n \in SessionIds}
VerificationValues == {VerificationValue(n) : n \in VerificationIds}

----------------------------------------------------------------------------
(* Datetimes *)

\* a nullable column that holds no value; a value d is stored as <<d>>
None == << >>

\* arrow.utcnow().datetime: timezone-aware
get_current_utc_datetime == [t |-> clock, aware |-> TRUE]

\* datetime.datetime.utcnow(): naive
datetime_utcnow == [t |-> clock, aware |-> FALSE]

\* a + timedelta
DatetimePlus(a, minutes) == [t |-> a.t + minutes, aware |-> a.aware]

\* a > b on Python datetimes: "TypeError" when exactly one of them is naive
DatetimeGreater(a, b) ==
    IF a.aware # b.aware THEN "TypeError"
    ELSE IF a.t > b.t THEN "True" ELSE "False"

\* a < b on Python datetimes
DatetimeLess(a, b) == DatetimeGreater(b, a)

\* Session.is_expired
Session_is_expired(s) == DatetimeGreater(datetime_utcnow, s.expires_at)

\* a token that never expires
Verification_is_expired_never(v) == "False"

\* Verification.is_expired
Verification_is_expired(v) == DatetimeGreater(get_current_utc_datetime, v.expires_at)

----------------------------------------------------------------------------
(* Request frames *)

\* the payload of no access token
NoJWTPayload == [sub |-> <<>>, exp |-> 0, iat |-> 0, type |-> "none"]

\* no access token
NoToken == [payload |-> NoJWTPayload, key |-> "", wellformed |-> FALSE]

NoFrame ==
    [op |-> "none", pc |-> "idle", arg |-> <<>>, pw |-> "", id |-> 0, uid |-> 0,
     acc |-> 0, at |-> 0, todo |-> {}, count |-> 0, result |-> "none",
     confirm |-> "", flag |-> FALSE, sid |-> 0, cookie |-> <<>>,
     jwt |-> NoJWTPayload, token |-> NoToken, data |-> << >>]

\* p serves no request
Finished(p) == req[p].pc = "idle"

\* the request of p returns or raises `r`
Return(p, r) ==
    [req EXCEPT ![p] = [NoFrame EXCEPT !.op = req[p].op, !.arg = req[p].arg,
                                       !.pw = req[p].pw, !.count = req[p].count,
                                       !.pc = "done", !.result = r]]

Goto(p, label) == [req EXCEPT ![p].pc = label]

\* the frame of a request that has just arrived
Frame(op, arg) == [NoFrame EXCEPT !.op = op, !.arg = arg, !.pc = "run"]

\* frame f returns or raises `r`
Returned(f, r) ==
    [NoFrame EXCEPT !.op = f.op, !.arg = f.arg, !.pw = f.pw, !.count = f.count,
                    !.pc = "done", !.result = r]

Remove(table, id) == [k \in DOMAIN table \ {id} |-> table[k]]

\* a create that drops the rows stored before
Insert_replacing(table, id, row) == [k \in {id} |-> row]

Insert(table, id, row) == [k \in DOMAIN table \cup {id} |-> IF k = id THEN row ELSE table[k]]

----------------------------------------------------------------------------
\* the stored form of a password: a salted hash, never the password itself
PasswordHash(password) == <<"hash", password>>

Init ==
    /\ clock = 0
    /\ ticks = 0
    /\ users = [u \in UserIds |->
                  [email |-> IF u = 1 THEN "a@x.com" ELSE "b@x.com",
                   email_verified |-> FALSE, deleted_at |-> None]]
    /\ accounts = [a \in {1} |-> [user_id |-> 1, email |-> "a@x.com", password |-> PasswordHash("pw1")]]
    /\ sessions = << >>
    /\ verifications = << >>
    /\ next_session = 1
    /\ next_verification = 1
    /\ roles = << >>
    /\ req = [p \in Procs |-> NoFrame]

\* the request ends: its response is sent and its database session is closed
respond(p) ==
    /\ req[p].pc = "done"
    /\ req' = [req EXCEPT ![p] = NoFrame]
    /\ UNCHANGED <<roles, clock, ticks, users, accounts, sessions, verifications,
                   next_session, next_verification>>

\* the clock advances
Tick(d) ==
    /\ ticks < MaxTicks
    /\ clock' = clock + d
    /\ ticks' = ticks + 1
    /\ UNCHANGED <<roles, users, accounts, sessions, verifications, next_session,
                   next_verification, req>>

----------------------------------------------------------------------------
(* Repository[Session] *)

\* Repository.get(id): the row, or None (0)
SessionRepository_get(id) == IF id \in DOMAIN sessions THEN id ELSE 0

\* Repository.get_first(token=token): the row with that token, or None (0)
SessionRepository_get_first(token) ==
    IF \E k \in DOMAIN sessions : sessions[k].token = token
    THEN CHOOSE k \in DOMAIN sessions : sessions[k].token = token
    ELSE 0

\* a sweep that also takes the sessions that expire at this instant
SessionRepository_all_expired_inclusive(now) ==
    {k \in DOMAIN sessions : sessions[k].expires_at.t <= now.t}

\* a listing that returns the sessions of every user
SessionRepository_all_of_user_any(user_id) == DOMAIN sessions

\* Repository.all(user_id=user_id) on sessions
SessionRepository_all_of_user(user_id) ==
    {k \in DOMAIN sessions : sessions[k].user_id = user_id}

\* Repository.all(expires_at=lt(now)): the comparison is made by the database
SessionRepository_all_expired(now) ==
    {k \in DOMAIN sessions : sessions[k].expires_at.t < now.t}

\* a delete that goes on when the row is gone
SessionRepository_delete_get_lenient(p) ==
    /\ req[p].pc = "session_delete_get"
    /\ req' = Goto(p, "session_delete_commit")
    /\ UNCHANGED <<roles, clock, ticks, users, accounts, sessions, verifications,
                   next_session, next_verification>>

\* Repository.delete(id), first await: get_or_raise
SessionRepository_delete_get(p) ==
    /\ req[p].pc = "session_delete_get"
    /\ req' = IF SessionRepository_get(req[p].id) = 0
              THEN Return(p, "DatabaseError")
              ELSE Goto(p, "session_delete_commit")
    /\ UNCHANGED <<roles, clock, ticks, users, accounts, sessions, verifications,
                   next_session, next_verification>>

\* what follows `await self.session_repository.delete(...)` in the caller
AfterSessionDelete(p) ==
    CASE req[p].op = "get_session_by_token" -> Return(p, "None")
      [] req[p].op = "delete_session" -> Return(p, "ok")
      [] req[p].op = "cleanup_expired_sessions" ->
            IF req[p].todo = {}
            THEN [Return(p, "count") EXCEPT ![p].count = req[p].count + 1]
            ELSE LET n == CHOOSE k \in req[p].todo : \A j \in req[p].todo : k <= j
                 IN  [req EXCEPT ![p].count = req[p].count + 1, ![p].id = n,
                                 ![p].todo = req[p].todo \ {n},
                                 ![p].pc = "session_delete_get"]
      [] req[p].op = "delete_user_sessions" ->
            IF req[p].todo = {}
            THEN Return(p, "ok")
            ELSE LET n == CHOOSE k \in req[p].todo : \A j \in req[p].todo : k <= j
                 IN  [req EXCEPT ![p].id = n, ![p].todo = req[p].todo \ {n},
                                 ![p].pc = "session_delete_get"]
      [] OTHER -> Return(p, "ok")

\* Repository.delete(id), second await: DELETE and commit.  A DELETE that
\* matches no row (the row went away since get_or_raise) is only a warning.
SessionRepository_delete_commit(p) ==
    /\ req[p].pc = "session_delete_commit"
    /\ sessions' = Remove(sessions, req[p].id)
    /\ req' = AfterSessionDelete(p)
    /\ UNCHANGED <<roles, clock, ticks, users, accounts, verifications,
                   next_session, next_verification>>

----------------------------------------------------------------------------
(* SessionService *)

\* SessionService.create_session, as _create_session_and_token calls it
create_session(p, user_id) ==
    /\ Finished(p)
    /\ next_session <= MaxSessions
    /\ sessions' = Insert(sessions, next_session,
                     [user_id |-> user_id,
                      token |-> SessionToken(next_session),
                      expires_at |-> DatetimePlus(get_current_utc_datetime,
                                                  Days(SESSION_EXPIRES_DAYS))])
    /\ next_session' = next_session + 1
    /\ req' = [req EXCEPT ![p] = Returned(Frame("create_session", user_id), "Session")]
    /\ UNCHANGED <<roles, clock, ticks, users, accounts, verifications, next_verification>>

\* the outcome of lines 119-128 once get_first has answered
GetSessionByTokenOutcome(found) ==
    IF found = 0 THEN "None"
    ELSE LET expired == Session_is_expired(sessions[found])
         IN  CASE expired = "TypeError" -> "TypeError"
               [] expired = "True" -> "delete"
               [] OTHER -> "Session"

\* SessionService.get_session_by_token: get_first and the is_expired test
get_session_by_token(p, token) ==
    /\ Finished(p)
    /\ LET f == Frame("get_session_by_token", token)
           found == SessionRepository_get_first(token)
           out == GetSessionByTokenOutcome(found)
       IN  req' = [req EXCEPT ![p] =
                     IF out = "delete"
                     THEN [f EXCEPT !.id = found, !.pc = "session_delete_get"]
                     ELSE Returned(f, out)]
    /\ UNCHANGED <<roles, clock, ticks, users, accounts, sessions, verifications,
                   next_session, next_verification>>

\* a request calls delete_session(session_id)
delete_session(p, session_id) ==
    /\ Finished(p)
    /\ req' = [req EXCEPT ![p] = [Frame("delete_session", session_id) EXCEPT
                                    !.id = session_id, !.pc = "session_delete_get"]]
    /\ UNCHANGED <<roles, clock, ticks, users, accounts, sessions, verifications,
                   next_session, next_verification>>

\* the expiry check written with <= instead of <
RefreshRejects_at_expiry(s) == s.expires_at.t <= clock

\* the expiry check left out
RefreshRejects_never(s) == FALSE

\* line 152: session.expires_at < get_current_utc_datetime()
RefreshRejects(s) == DatetimeLess(s.expires_at, get_current_utc_datetime) = "True"

\* refresh_session lines 150-153: get_or_raise and the expiry check
refresh_session(p, session_id) ==
    /\ Finished(p)
    /\ LET f == Frame("refresh_session", session_id)
       IN  req' = [req EXCEPT ![p] =
                     IF SessionRepository_get(session_id) = 0
                     THEN Returned(f, "DatabaseError")
                     ELSE IF RefreshRejects(sessions[session_id])
                     THEN Returned(f, "AppException")
                     ELSE [f EXCEPT !.id = session_id, !.pc = "refresh_compute"]]
    /\ UNCHANGED <<roles, clock, ticks, users, accounts, sessions, verifications,
                   next_session, next_verification>>

\* lines 155-157: new_expires_at
RefreshNewExpiresAt(expires_in_days) ==
    DatetimePlus(get_current_utc_datetime, Days(expires_in_days))

\* refresh_session lines 155-157: the clock is read a second time
refresh_session_compute(p) ==
    /\ req[p].pc = "refresh_compute"
    /\ req' = [req EXCEPT ![p].at = RefreshNewExpiresAt(SESSION_EXPIRES_DAYS).t,
                          ![p].pc = "refresh_update_get"]
    /\ UNCHANGED <<roles, clock, ticks, users, accounts, sessions, verifications,
                   next_session, next_verification>>

\* Repository.update(id, expires_at=...), first await: get_or_raise
refresh_session_update_get(p) ==
    /\ req[p].pc = "refresh_update_get"
    /\ req' = IF SessionRepository_get(req[p].id) = 0
              THEN Return(p, "DatabaseError")
              ELSE Goto(p, "refresh_update_commit")
    /\ UNCHANGED <<roles, clock, ticks, users, accounts, sessions, verifications,
                   next_session, next_verification>>

\* an update that also rotates the token
SessionUpdated_new_token(s, new_expires_at) ==
    [s EXCEPT !.expires_at = new_expires_at, !.token = <<"st", 0>>]

\* the row Repository.update writes: only the attributes passed are set
SessionUpdated(s, new_expires_at) == [s EXCEPT !.expires_at = new_expires_at]

\* Repository.update, second await: UPDATE and commit.  An UPDATE that matches
\* no row raises StaleDataError, which the repository wraps in DatabaseError.
refresh_session_update_commit(p) ==
    /\ req[p].pc = "refresh_update_commit"
    /\ IF req[p].id \in DOMAIN sessions
       THEN /\ sessions' = [sessions EXCEPT ![req[p].id] =
                               SessionUpdated(@, [t |-> req[p].at, aware |-> TRUE])]
            /\ req' = Return(p, "Session")
       ELSE /\ sessions' = sessions
            /\ req' = Return(p, "DatabaseError")
    /\ UNCHANGED <<roles, clock, ticks, users, accounts, verifications,
                   next_session, next_verification>>

\* SessionService.cleanup_expired_sessions lines 168-171: list the expired
cleanup_expired_sessions(p) ==
    /\ Finished(p)
    /\ LET expired == SessionRepository_all_expired(get_current_utc_datetime)
       IN  req' = IF expired = {}
                  THEN [req EXCEPT ![p] =
                          Returned(Frame("cleanup_expired_sessions", <<>>), "count")]
                  ELSE LET n == CHOOSE k \in expired : \A j \in expired : k <= j
                       IN  [req EXCEPT ![p] =
                              [Frame("cleanup_expired_sessions", <<>>) EXCEPT
                                 !.id = n, !.todo = expired \ {n},
                                 !.pc = "session_delete_get"]]
    /\ UNCHANGED <<roles, clock, ticks, users, accounts, sessions, verifications,
                   next_session, next_verification>>

\* SessionService.delete_user_sessions line 140: list the sessions of the user
delete_user_sessions(p, user_id) ==
    /\ Finished(p)
    /\ LET owned == SessionRepository_all_of_user(user_id)
           f == Frame("delete_user_sessions", user_id)
       IN  req' = IF owned = {}
                  THEN [req EXCEPT ![p] = Returned(f, "ok")]
                  ELSE LET n == CHOOSE k \in owned : \A j \in owned : k <= j
                       IN  [req EXCEPT ![p] =
                              [f EXCEPT !.id = n, !.todo = owned \ {n},
                                        !.pc = "session_delete_get"]]
    /\ UNCHANGED <<roles, clock, ticks, users, accounts, sessions, verifications,
                   next_session, next_verification>>

SessionTickSteps == {Days(SESSION_EXPIRES_DAYS)}

\* the users that log in under SessionSpec
SessionUsers == {1}

SessionNext ==
    \/ \E d \in SessionTickSteps : Tick(d)
    \/ \E p \in Procs :
          \/ respond(p)
          \/ \E u \in SessionUsers : create_session(p, u)
          \/ \E t \in SessionTokens : get_session_by_token(p, t)
          \/ \E s \in SessionIds : delete_session(p, s)
          \/ \E s \in SessionIds : refresh_session(p, s)
          \/ refresh_session_compute(p)
          \/ refresh_session_update_get(p)
          \/ refresh_session_update_commit(p)
          \/ cleanup_expired_sessions(p)
          \/ SessionRepository_delete_get(p)
          \/ SessionRepository_delete_commit(p)

SessionSpec == Init /\ [][SessionNext]_vars

----------------------------------------------------------------------------
(* Repository[User], Repository[Verification], AccountService, EmailService *)

\* a lookup that finds a user for every e-mail
UserRepository_get_first_any(email) == 1

\* Repository.get_first(email=email) on users: the row, or None (0)
UserRepository_get_first(email) ==
    IF \E u \in DOMAIN users : users[u].email = email
    THEN CHOOSE u \in DOMAIN users : users[u].email = email
    ELSE 0

\* a lookup by value alone
VerificationRepository_get_first_any_identifier(value, identifier) ==
    IF \E k \in DOMAIN verifications : verifications[k].value = value
    THEN CHOOSE k \in DOMAIN verifications : verifications[k].value = value
    ELSE 0

\* Repository.get_first(value=value, identifier=identifier) on verifications
VerificationRepository_get_first(value, identifier) ==
    IF \E k \in DOMAIN verifications :
          verifications[k].value = value /\ verifications[k].identifier = identifier
    THEN CHOOSE k \in DOMAIN verifications :
          verifications[k].value = value /\ verifications[k].identifier = identifier
    ELSE 0

\* Repository.get(id) on verifications
VerificationRepository_get(id) == IF id \in DOMAIN verifications THEN id ELSE 0

\* an update that writes nothing
UserVerified_unchanged(u) == u

\* Repository.update(user.id, email_verified=True): the row written
UserVerified(u) == [u EXCEPT !.email_verified = TRUE]

\* a delete that removes nothing
VerificationDeleted_none(id) == verifications

\* a delete that also removes the other tokens of the same user and purpose
VerificationDeleted_all_of_user(id) ==
    [k \in {j \in DOMAIN verifications :
               \/ verifications[j].user_id # verifications[id].user_id
               \/ verifications[j].identifier # verifications[id].identifier}
       |-> verifications[k]]

\* Repository.delete on verifications: the table after DELETE and commit
VerificationDeleted(id) == Remove(verifications, id)

\* a lookup that finds a credential account for every e-mail
get_account_by_email_any(email) == 1

\* AccountService.get_account_by_email(email): the account, or None (0)
get_account_by_email(email) ==
    IF \E a \in DOMAIN accounts : accounts[a].email = email
    THEN CHOOSE a \in DOMAIN accounts : accounts[a].email = email
    ELSE 0

\* AccountService.update_account_password(account_id, new_password)
update_account_password(account_id, new_password) ==
    [accounts EXCEPT ![account_id].password = PasswordHash(new_password)]

\* EmailService.send_email: it returns (TRUE) or raises AppException (FALSE)
SendEmailOutcomes == {TRUE, FALSE}

\* the identifier of the token a flow issues
IssuedIdentifier(op) ==
    IF op = "forgot_password" THEN PASSWORD_RESET ELSE EMAIL_VERIFICATION

\* the lifetime of the token a flow issues, in minutes
IssuedLifetime(op) ==
    IF op = "forgot_password" THEN PASSWORD_RESET_EXPIRES_MINUTES
    ELSE Hours(EMAIL_VERIFICATION_EXPIRES_HOURS)

\* AuthController._create_verification_token: the Verification built for a flow
create_verification_token(user_id, op, n) ==
    [identifier |-> IssuedIdentifier(op),
     user_id |-> user_id,
     value |-> VerificationValue(n),
     expires_at |-> DatetimePlus(get_current_utc_datetime, IssuedLifetime(op))]

----------------------------------------------------------------------------
(* AuthController: issuing tokens *)

\* send_verification_email lines 211-223: look the user up, build the token
send_verification_email(p, email) ==
    /\ Finished(p)
    /\ LET f == Frame("send_verification_email", email)
           user == UserRepository_get_first(email)
       IN  IF user = 0 \/ (user # 0 /\ users[user].email_verified)
           THEN /\ req' = [req EXCEPT ![p] = Returned(f, "ValidationError")]
                /\ UNCHANGED next_verification
           ELSE /\ next_verification <= MaxVerifications
                /\ req' = [req EXCEPT ![p] =
                             [f EXCEPT !.uid = user, !.id = next_verification,
                                       !.at = create_verification_token(
                                                 user, f.op, next_verification).expires_at.t,
                                       !.pc = "verification_create"]]
                /\ next_verification' = next_verification + 1
    /\ UNCHANGED <<roles, clock, ticks, users, accounts, sessions, verifications, next_session>>

\* forgot_password lines 254-263: look the user up, build the token
forgot_password(p, email) ==
    /\ Finished(p)
    /\ LET f == Frame("forgot_password", email)
           user == UserRepository_get_first(email)
       IN  IF user = 0
           THEN /\ req' = [req EXCEPT ![p] = Returned(f, "ValidationError")]
                /\ UNCHANGED next_verification
           ELSE /\ next_verification <= MaxVerifications
                /\ req' = [req EXCEPT ![p] =
                             [f EXCEPT !.uid = user, !.id = next_verification,
                                       !.at = create_verification_token(
                                                 user, f.op, next_verification).expires_at.t,
                                       !.pc = "verification_create"]]
                /\ next_verification' = next_verification + 1
    /\ UNCHANGED <<roles, clock, ticks, users, accounts, sessions, verifications, next_session>>

\* `await self.verification_repository.create(verification)`, then the e-mail
VerificationRepository_create(p) ==
    /\ req[p].pc = "verification_create"
    /\ verifications' = Insert(verifications, req[p].id,
                          [identifier |-> IssuedIdentifier(req[p].op),
                           user_id |-> req[p].uid,
                           value |-> VerificationValue(req[p].id),
                           expires_at |-> [t |-> req[p].at, aware |-> TRUE]])
    /\ \E sent \in SendEmailOutcomes :
          req' = Return(p, IF sent THEN "ok" ELSE "AppException")
    /\ UNCHANGED <<roles, clock, ticks, users, accounts, sessions, next_session,
                   next_verification>>

----------------------------------------------------------------------------
(* AuthController: redeeming tokens *)

\* the expiry test left out
RedeemOutcome_unchecked(found) == IF found = 0 THEN "ValidationError" ELSE "continue"

\* lines 163-171 and 290-298: what get_first and is_expired decide
RedeemOutcome(found) ==
    IF found = 0 THEN "ValidationError"
    ELSE LET expired == Verification_is_expired(verifications[found])
         IN  CASE expired = "TypeError" -> "TypeError"
               [] expired = "True" -> "ValidationError"
               [] OTHER -> "continue"

\* verify_email lines 163-171
verify_email(p, value) ==
    /\ Finished(p)
    /\ LET f == Frame("verify_email", value)
           found == VerificationRepository_get_first(value, EMAIL_VERIFICATION)
           out == RedeemOutcome(found)
       IN  req' = [req EXCEPT ![p] =
                     IF out = "continue"
                     THEN [f EXCEPT !.id = found, !.uid = verifications[found].user_id,
                                    !.pc = "verify_get_user"]
                     ELSE Returned(f, out)]
    /\ UNCHANGED <<roles, clock, ticks, users, accounts, sessions, verifications,
                   next_session, next_verification>>

\* the short-circuit for verified users left out
AlreadyVerified_never(user_id) == FALSE

\* line 175: if user.email_verified
AlreadyVerified(user_id) == users[user_id].email_verified

\* verify_email lines 173-180: load the user; an already verified user ends it
verify_email_get_user(p) ==
    /\ req[p].pc = "verify_get_user"
    /\ req' = IF req[p].uid \notin DOMAIN users
              THEN Return(p, "DatabaseError")
              ELSE IF AlreadyVerified(req[p].uid)
              THEN Return(p, "already_verified")
              ELSE Goto(p, "verify_update_get")
    /\ UNCHANGED <<roles, clock, ticks, users, accounts, sessions, verifications,
                   next_session, next_verification>>

\* line 182, Repository.update first await: get_or_raise
verify_email_update_get(p) ==
    /\ req[p].pc = "verify_update_get"
    /\ req' = IF req[p].uid \notin DOMAIN users
              THEN Return(p, "DatabaseError")
              ELSE Goto(p, "verify_update_commit")
    /\ UNCHANGED <<roles, clock, ticks, users, accounts, sessions, verifications,
                   next_session, next_verification>>

\* line 182, Repository.update second await: UPDATE and commit
verify_email_update_commit(p) ==
    /\ req[p].pc = "verify_update_commit"
    /\ users' = [users EXCEPT ![req[p].uid] = UserVerified(@)]
    /\ req' = Goto(p, "verification_delete_get")
    /\ UNCHANGED <<roles, clock, ticks, accounts, sessions, verifications,
                   next_session, next_verification>>

\* Repository.delete(verification.id), first await: get_or_raise
VerificationRepository_delete_get(p) ==
    /\ req[p].pc = "verification_delete_get"
    /\ req' = IF VerificationRepository_get(req[p].id) = 0
              THEN Return(p, "DatabaseError")
              ELSE Goto(p, "verification_delete_commit")
    /\ UNCHANGED <<roles, clock, ticks, users, accounts, sessions, verifications,
                   next_session, next_verification>>

\* the success result of the flow that redeemed the token
RedeemSuccess(op) == IF op = "verify_email" THEN "verified" ELSE "ok"

\* Repository.delete second await: DELETE and commit; then the confirmation
\* e-mail (lines 185-196, 312-321) and the response
VerificationRepository_delete_commit(p) ==
    /\ req[p].pc = "verification_delete_commit"
    /\ verifications' = VerificationDeleted(req[p].id)
    /\ \E sent \in SendEmailOutcomes :
          req' = Return(p, IF sent THEN RedeemSuccess(req[p].op) ELSE "AppException")
    /\ UNCHANGED <<roles, clock, ticks, users, accounts, sessions, next_session,
                   next_verification>>

\* reset_password lines 290-298
reset_password(p, value, password) ==
    /\ Finished(p)
    /\ LET f == [Frame("reset_password", value) EXCEPT !.pw = password]
           found == VerificationRepository_get_first(value, PASSWORD_RESET)
           out == RedeemOutcome(found)
       IN  req' = [req EXCEPT ![p] =
                     IF out = "continue"
                     THEN [f EXCEPT !.id = found, !.uid = verifications[found].user_id,
                                    !.pc = "reset_get_user"]
                     ELSE Returned(f, out)]
    /\ UNCHANGED <<roles, clock, ticks, users, accounts, sessions, verifications,
                   next_session, next_verification>>

\* reset_password line 300: user_repository.get_or_raise
reset_password_get_user(p) ==
    /\ req[p].pc = "reset_get_user"
    /\ req' = IF req[p].uid \notin DOMAIN users
              THEN Return(p, "DatabaseError")
              ELSE Goto(p, "reset_get_account")
    /\ UNCHANGED <<roles, clock, ticks, users, accounts, sessions, verifications,
                   next_session, next_verification>>

\* reset_password lines 302-305: the credential account of the user's e-mail
reset_password_get_account(p) ==
    /\ req[p].pc = "reset_get_account"
    /\ LET account == get_account_by_email(users[req[p].uid].email)
       IN  req' = IF account = 0
                  THEN Return(p, "ValidationError")
                  ELSE [req EXCEPT ![p].acc = account, ![p].pc = "reset_update_password"]
    /\ UNCHANGED <<roles, clock, ticks, users, accounts, sessions, verifications,
                   next_session, next_verification>>

\* a password update that also revokes the sessions of the user
reset_password_update_password_revoking(p) ==
    /\ req[p].pc = "reset_update_password"
    /\ accounts' = update_account_password(req[p].acc, req[p].pw)
    /\ sessions' = [k \in {j \in DOMAIN sessions : sessions[j].user_id # req[p].uid}
                      |-> sessions[k]]
    /\ req' = Goto(p, "verification_delete_get")
    /\ UNCHANGED <<roles, clock, ticks, users, verifications,
                   next_session, next_verification>>

\* reset_password lines 307-309: account_service.update_account_password
reset_password_update_password(p) ==
    /\ req[p].pc = "reset_update_password"
    /\ accounts' = update_account_password(req[p].acc, req[p].pw)
    /\ req' = Goto(p, "verification_delete_get")
    /\ UNCHANGED <<roles, clock, ticks, users, sessions, verifications,
                   next_session, next_verification>>

VerifyNext ==
    \/ Tick(Hours(EMAIL_VERIFICATION_EXPIRES_HOURS))
    \/ \E p \in Procs :
          \/ respond(p)
          \/ \E e \in Emails : send_verification_email(p, e)
          \/ VerificationRepository_create(p)
          \/ \E v \in VerificationValues : verify_email(p, v)
          \/ verify_email_get_user(p)
          \/ verify_email_update_get(p)
          \/ verify_email_update_commit(p)
          \/ VerificationRepository_delete_get(p)
          \/ VerificationRepository_delete_commit(p)

VerifySpec == Init /\ [][VerifyNext]_vars

ResetNext ==
    \/ Tick(PASSWORD_RESET_EXPIRES_MINUTES)
    \/ \E p \in Procs :
          \/ respond(p)
          \/ \E e \in Emails : forgot_password(p, e)
          \/ VerificationRepository_create(p)
          \/ \E v \in VerificationValues : \E pw \in Passwords : reset_password(p, v, pw)
          \/ reset_password_get_user(p)
          \/ reset_password_get_account(p)
          \/ reset_password_update_password(p)
          \/ VerificationRepository_delete_get(p)
          \/ VerificationRepository_delete_commit(p)

ResetSpec == Init /\ [][ResetNext]_vars

----------------------------------------------------------------------------
(* Session Manager: properties *)

\* p takes the first step of a call of `op` with argument `arg`
Starts(p, op, arg) ==
    /\ req[p].pc = "idle"
    /\ req'[p].op = op
    /\ req'[p].arg = arg

\* session k is stored and the clock is past its expires_at
Expired(k) == k \in DOMAIN sessions /\ clock > sessions[k].expires_at.t

\* session k is stored and not expired
Valid(k) == k \in DOMAIN sessions /\ ~(clock > sessions[k].expires_at.t)

\* session k was created at some time
Created(k) == k < next_session

\* C1 (as claimed): get_session_by_token on the token of a stored, expired
\* session goes on to delete that session and then returns None with the
\* session gone; it never ends in anything but None.
C1_ExpiredLookupEvicts ==
    [][\A p \in Procs : \A k \in SessionIds :
          /\ (Starts(p, "get_session_by_token", SessionToken(k)) /\ Expired(k))
                => /\ req'[p].pc = "session_delete_get"
                   /\ req'[p].id = k
          /\ (req[p].op = "get_session_by_token" /\ req[p].pc = "session_delete_commit"
                /\ req[p].id = k)
                => /\ req'[p].result = "None"
                   /\ k \notin DOMAIN sessions'
      ]_vars

C3_NeverResurrected ==
    [][\A k \in SessionIds : (Created(k) /\ ~Valid(k)) => ~Valid(k)']_vars

\* C4: refresh_session on a stored session whose expires_at has passed fails
\* with AppException in its first step and leaves the sessions table as it is.
C4_RefreshExpiredFails ==
    [][\A p \in Procs : \A k \in SessionIds :
          (Starts(p, "refresh_session", k) /\ Expired(k))
             => /\ req'[p].pc = "done"
                /\ req'[p].result = "AppException"
                /\ sessions' = sessions
      ]_vars

\* C4 witness: a refresh of a stored, expired session has failed
C4_Witness ==
    \E p \in Procs :
        /\ req[p].op = "refresh_session"
        /\ req[p].pc = "done"
        /\ req[p].result = "AppException"
        /\ Expired(req[p].arg)

\* C5: a refresh_session that passes its expiry check computes now + 30 days,
\* and when its update commits it writes exactly that expires_at to its own
\* session: same id, token and user, and every other session as it was.
C5_RefreshExtendsOnlyExpiry ==
    [][\A p \in Procs :
          /\ (req[p].pc = "refresh_compute" /\ req'[p].pc # "refresh_compute")
                => req'[p].at = clock + Days(SESSION_EXPIRES_DAYS)
          /\ (req[p].pc = "refresh_update_commit" /\ req'[p].result = "Session")
                => /\ DOMAIN sessions' = DOMAIN sessions
                   /\ \A k \in DOMAIN sessions :
                         IF k = req[p].id
                         THEN /\ sessions'[k].expires_at = [t |-> req[p].at, aware |-> TRUE]
                              /\ sessions'[k].token = sessions[k].token
                              /\ sessions'[k].user_id = sessions[k].user_id
                         ELSE sessions'[k] = sessions[k]
      ]_vars

\* C5 witness: a refresh has extended one of two stored sessions
C5_Witness ==
    \E p \in Procs :
        /\ req[p].op = "refresh_session"
        /\ req[p].pc = "done"
        /\ req[p].result = "Session"
        /\ Cardinality(DOMAIN sessions) = 2
        /\ req[p].arg \in DOMAIN sessions
        /\ sessions[req[p].arg].expires_at.t = clock + Days(SESSION_EXPIRES_DAYS)
        /\ ticks > 0

----------------------------------------------------------------------------
(* Verification Workflow Engine: properties *)

\* the stored token with this value and identifier, or 0
Token(value, identifier) == VerificationRepository_get_first(value, identifier)

\* the clock is past the expires_at of stored token k
TokenExpired(k) == clock > verifications[k].expires_at.t

VerifySuccess == {"verified", "already_verified"}

\* q holds the response of a finished call of `op` with argument `arg`
Responded(q, op, arg, results) ==
    /\ req[q].pc = "done"
    /\ req[q].op = op
    /\ req[q].arg = arg
    /\ req[q].result \in results

\* p leaves the label `label` in this step
Leaves(p, label) == req[p].pc = label /\ req'[p].pc # label

\* C6 (as claimed): after verify_email succeeded with a token, a later
\* verify_email with the same token succeeds too.
C6_SecondRedeemSucceeds ==
    [][\A p \in Procs : \A q \in Procs \ {p} : \A v \in VerificationValues :
          (Responded(q, "verify_email", v, VerifySuccess) /\ Starts(p, "verify_email", v))
             => ~(req'[p].pc = "done" /\ req'[p].result \notin VerifySuccess)
      ]_vars

\* C6 (amended): once the user is marked verified, verify_email with a stored,
\* unexpired email_verification token of that user returns success and changes
\* neither users nor tokens, so repeating it succeeds again; the call that
\* marked the user verified deleted its token, and repeating that call with
\* the same token fails with ValidationError.
C6_IdempotentWhileTokenStored ==
    [][\A p \in Procs : \A v \in VerificationValues :
          LET k == Token(v, EMAIL_VERIFICATION) IN
          /\ (Starts(p, "verify_email", v) /\ k # 0 /\ ~TokenExpired(k)
                /\ users[verifications[k].user_id].email_verified)
                => /\ req'[p].pc = "verify_get_user"
                   /\ req'[p].id = k
                   /\ req'[p].uid = verifications[k].user_id
                   /\ users' = users /\ verifications' = verifications
          /\ (Leaves(p, "verify_get_user") /\ users[req[p].uid].email_verified)
                => /\ req'[p].pc = "done"
                   /\ req'[p].result = "already_verified"
                   /\ users' = users /\ verifications' = verifications
          /\ \A q \in Procs \ {p} :
                (Responded(q, "verify_email", v, {"verified"})
                   /\ Starts(p, "verify_email", v))
                   => req'[p].pc = "done" /\ req'[p].result = "ValidationError"
      ]_vars

\* C6 witness: two calls with the same token of a verified user have both
\* succeeded, and the token is still stored
C6_Witness ==
    \E p \in Procs : \E q \in Procs \ {p} : \E v \in VerificationValues :
        /\ Responded(p, "verify_email", v, {"already_verified"})
        /\ Responded(q, "verify_email", v, {"already_verified"})
        /\ Token(v, EMAIL_VERIFICATION) # 0

\* C7: verify_email with a stored, unexpired email_verification token loads
\* the token's user; for an unverified user it sets exactly that user's
\* email_verified and then deletes exactly that token; for a verified user it
\* succeeds and changes neither the token nor the user.
C7_VerifyEmailEffect ==
    [][\A p \in Procs :
          /\ \A v \in VerificationValues :
                LET k == Token(v, EMAIL_VERIFICATION) IN
                (Starts(p, "verify_email", v) /\ k # 0 /\ ~TokenExpired(k))
                   => /\ req'[p].pc = "verify_get_user"
                      /\ req'[p].id = k
                      /\ req'[p].uid = verifications[k].user_id
          /\ Leaves(p, "verify_get_user")
                => /\ users' = users /\ verifications' = verifications
                   /\ IF users[req[p].uid].email_verified
                      THEN req'[p].pc = "done" /\ req'[p].result = "already_verified"
                      ELSE req'[p].pc = "verify_update_get"
          /\ Leaves(p, "verify_update_commit")
                => /\ users' = [users EXCEPT ![req[p].uid].email_verified = TRUE]
                   /\ verifications' = verifications
                   /\ req'[p].pc = "verification_delete_get"
          /\ (Leaves(p, "verification_delete_commit") /\ req[p].op = "verify_email")
                => /\ DOMAIN verifications' = DOMAIN verifications \ {req[p].id}
                   /\ \A j \in DOMAIN verifications' : verifications'[j] = verifications[j]
                   /\ users' = users
                   /\ users[req[p].uid].email_verified
      ]_vars

\* C7 witness: a call has verified its user and deleted its token, while
\* another token is still stored
C7_Witness ==
    \E p \in Procs : \E v \in VerificationValues :
        /\ Responded(p, "verify_email", v, {"verified"})
        /\ Token(v, EMAIL_VERIFICATION) = 0
        /\ verifications # << >>
        /\ \E u \in DOMAIN users : users[u].email_verified
        /\ \E u \in DOMAIN users : ~users[u].email_verified

\* C8: verify_email with a value that no stored email_verification token has
\* fails with ValidationError; with a stored token whose expires_at has passed
\* it fails with ValidationError and leaves tokens and users as they are.
C8_VerifyEmailRejects ==
    [][\A p \in Procs : \A v \in VerificationValues :
          LET k == Token(v, EMAIL_VERIFICATION) IN
          /\ (Starts(p, "verify_email", v) /\ k = 0)
                => req'[p].pc = "done" /\ req'[p].result = "ValidationError"
          /\ (Starts(p, "verify_email", v) /\ k # 0 /\ TokenExpired(k))
                => /\ req'[p].pc = "done" /\ req'[p].result = "ValidationError"
                   /\ verifications' = verifications
                   /\ users' = users
      ]_vars

\* C8 witness: verify_email has rejected a token that is stored and expired
C8_Witness ==
    \E p \in Procs : \E v \in VerificationValues :
        /\ Responded(p, "verify_email", v, {"ValidationError"})
        /\ Token(v, EMAIL_VERIFICATION) # 0
        /\ TokenExpired(Token(v, EMAIL_VERIFICATION))
        /\ ~users[verifications[Token(v, EMAIL_VERIFICATION)].user_id].email_verified

\* C9: reset_password with a stored password_reset token whose expires_at has
\* passed fails with ValidationError in its first step and changes no account.
C9_ExpiredResetRejected ==
    [][\A p \in Procs : \A v \in VerificationValues :
          LET k == Token(v, PASSWORD_RESET) IN
          (Starts(p, "reset_password", v) /\ k # 0 /\ TokenExpired(k))
             => /\ req'[p].pc = "done" /\ req'[p].result = "ValidationError"
                /\ accounts' = accounts
                /\ verifications' = verifications
      ]_vars

\* C9 witness: reset_password has rejected the expired token of a user who has
\* a credential account, with a password other than the stored one
C9_Witness ==
    \E p \in Procs : \E v \in VerificationValues :
        LET k == Token(v, PASSWORD_RESET) IN
        /\ Responded(p, "reset_password", v, {"ValidationError"})
        /\ k # 0
        /\ TokenExpired(k)
        /\ \E a \in DOMAIN accounts :
              /\ accounts[a].user_id = verifications[k].user_id
              /\ accounts[a].password # PasswordHash(req[p].pw)

\* C10: reset_password writes the new password to the account and then deletes
\* its token; after it returned success no token with that value is stored,
\* and a later reset_password with the same value fails with ValidationError
\* and changes no account.
C10_ResetConsumesToken ==
    /\ [](\A q \in Procs : \A v \in VerificationValues :
             Responded(q, "reset_password", v, {"ok"}) => Token(v, PASSWORD_RESET) = 0)
    /\ [][\A p \in Procs :
             /\ Leaves(p, "reset_update_password")
                   => /\ req[p].acc \in DOMAIN accounts
                      /\ accounts' = [accounts EXCEPT ![req[p].acc].password =
                                                          PasswordHash(req[p].pw)]
                      /\ req'[p].pc = "verification_delete_get"
             /\ (Leaves(p, "verification_delete_commit") /\ req[p].op = "reset_password")
                   => /\ req[p].id \notin DOMAIN verifications'
                      /\ accounts' = accounts
             /\ \A q \in Procs \ {p} : \A v \in VerificationValues :
                   (Responded(q, "reset_password", v, {"ok"})
                      /\ Starts(p, "reset_password", v))
                      => /\ req'[p].pc = "done" /\ req'[p].result = "ValidationError"
                         /\ accounts' = accounts
         ]_vars

\* C10 witness: after a successful reset a second call with the same token
\* and another password has failed, and the account holds the first password
C10_Witness ==
    \E p \in Procs : \E q \in Procs \ {p} : \E v \in VerificationValues :
        /\ Responded(q, "reset_password", v, {"ok"})
        /\ Responded(p, "reset_password", v, {"ValidationError"})
        /\ req[p].pw # req[q].pw
        /\ \E a \in DOMAIN accounts : accounts[a].password = PasswordHash(req[q].pw)

\* p has written a new password under the stored token k and has not yet
\* deleted the token
UpdatedUnderToken(p, k) ==
    /\ req[p].op = "reset_password"
    /\ req[p].pc \in {"verification_delete_get", "verification_delete_commit"}
    /\ req[p].id = k

\* C11 (as claimed): of two reset_password requests that carry the same valid
\* token, at most one updates the credential account.
C11_SingleUseUnderConcurrency ==
    \A p \in Procs : \A q \in Procs \ {p} : \A k \in VerificationIds :
        ~(UpdatedUnderToken(p, k) /\ UpdatedUnderToken(q, k))

\* user u has no credential account
NoCredentialAccount(u) == ~\E a \in DOMAIN accounts : accounts[a].user_id = u

\* the stored password_reset token with this value belongs to a user without
\* a credential account
TokenOfUserWithoutAccount(v) ==
    LET k == Token(v, PASSWORD_RESET) IN
    k # 0 /\ NoCredentialAccount(verifications[k].user_id)

\* C12: every step of a reset_password request whose token belongs to a user
\* without a credential account leaves accounts and tokens as they are, never
\* reaches the password update, and the request ends with ValidationError.
C12_ResetWithoutAccountFails ==
    [][\A p \in Procs :
          /\ (req'[p] # req[p] /\ req'[p].op = "reset_password"
                /\ TokenOfUserWithoutAccount(req'[p].arg))
                => /\ accounts' = accounts
                   /\ verifications' = verifications
                   /\ req'[p].pc # "reset_update_password"
                   /\ req'[p].pc = "done" => req'[p].result = "ValidationError"
          /\ (Leaves(p, "reset_get_account") /\ NoCredentialAccount(req[p].uid))
                => /\ req'[p].pc = "done" /\ req'[p].result = "ValidationError"
                   /\ accounts' = accounts
                   /\ req[p].id \in DOMAIN verifications => req[p].id \in DOMAIN verifications'
      ]_vars

\* C12 witness: reset_password has failed with ValidationError on a stored,
\* unexpired token of a user without a credential account
C12_Witness ==
    \E p \in Procs : \E v \in VerificationValues :
        /\ Responded(p, "reset_password", v, {"ValidationError"})
        /\ TokenOfUserWithoutAccount(v)
        /\ ~TokenExpired(Token(v, PASSWORD_RESET))

\* some user has this e-mail address
Registered(e) == \E u \in DOMAIN users : users[u].email = e

\* C14: forgot_password for a registered e-mail builds a token with a fresh id
\* and value that expires PASSWORD_RESET_EXPIRES_MINUTES after the call; its
\* create adds exactly that row and keeps every stored token unchanged; the
\* request then succeeds unless the e-mail dispatch raises.  Two requests in
\* flight for the same user hold different tokens, so both rows are stored.
C14_ForgotPasswordAccumulates ==
    /\ [](\A p \in Procs : \A q \in Procs \ {p} :
             (req[p].pc = "verification_create" /\ req[q].pc = "verification_create")
                => req[p].id # req[q].id)
    /\ [][\A p \in Procs :
             /\ \A e \in Emails :
                   (Starts(p, "forgot_password", e) /\ Registered(e))
                      => /\ req'[p].pc = "verification_create"
                         /\ users[req'[p].uid].email = e
                         /\ req'[p].id \notin DOMAIN verifications
                         /\ req'[p].at = clock + PASSWORD_RESET_EXPIRES_MINUTES
                         /\ verifications' = verifications
             /\ (Leaves(p, "verification_create") /\ req[p].op = "forgot_password")
                   => /\ DOMAIN verifications' = DOMAIN verifications \cup {req[p].id}
                      /\ \A k \in DOMAIN verifications : verifications'[k] = verifications[k]
                      /\ verifications'[req[p].id].identifier = PASSWORD_RESET
                      /\ verifications'[req[p].id].user_id = req[p].uid
                      /\ verifications'[req[p].id].expires_at.t = req[p].at
                      /\ \A k \in DOMAIN verifications :
                            verifications[k].value # verifications'[req[p].id].value
                      /\ req'[p].pc = "done"
                      /\ req'[p].result \in {"ok", "AppException"}
         ]_vars

\* C14 witness: two forgot_password requests for the same e-mail have both
\* succeeded, and two unexpired password_reset tokens of that user are stored
C14_Witness ==
    \E p \in Procs : \E q \in Procs \ {p} : \E e \in Emails :
        /\ Responded(p, "forgot_password", e, {"ok"})
        /\ Responded(q, "forgot_password", e, {"ok"})
        /\ \E j \in DOMAIN verifications : \E k \in DOMAIN verifications \ {j} :
              /\ verifications[j].identifier = PASSWORD_RESET
              /\ verifications[k].identifier = PASSWORD_RESET
              /\ users[verifications[j].user_id].email = e
              /\ verifications[j].user_id = verifications[k].user_id
              /\ verifications[j].value # verifications[k].value
              /\ ~TokenExpired(j) /\ ~TokenExpired(k)

\* C15: forgot_password for an e-mail of no user fails with ValidationError in
\* its first step and issues no token.
C15_ForgotPasswordUnregistered ==
    [][\A p \in Procs : \A e \in Emails :
          (Starts(p, "forgot_password", e) /\ ~Registered(e))
             => /\ req'[p].pc = "done" /\ req'[p].result = "ValidationError"
                /\ verifications' = verifications
                /\ next_verification' = next_verification
      ]_vars

\* C15 witness: forgot_password has failed for an unregistered e-mail while a
\* token of a registered user is stored
C15_Witness ==
    \E p \in Procs : \E e \in Emails :
        /\ Responded(p, "forgot_password", e, {"ValidationError"})
        /\ ~Registered(e)
        /\ verifications # << >>

----------------------------------------------------------------------------
(* Both token workflows on the one verifications table *)

\* the requests of one user, who resets to one password
TokenEmails == {"a@x.com"}
TokenPasswords == {"pw2"}

TokenNext ==
    \/ Tick(PASSWORD_RESET_EXPIRES_MINUTES)
    \/ \E p \in Procs :
          \/ respond(p)
          \/ \E e \in TokenEmails : send_verification_email(p, e)
          \/ \E e \in TokenEmails : forgot_password(p, e)
          \/ VerificationRepository_create(p)
          \/ \E v \in VerificationValues : verify_email(p, v)
          \/ verify_email_get_user(p)
          \/ verify_email_update_get(p)
          \/ verify_email_update_commit(p)
          \/ \E v \in VerificationValues : \E pw \in TokenPasswords : reset_password(p, v, pw)
          \/ reset_password_get_user(p)
          \/ reset_password_get_account(p)
          \/ reset_password_update_password(p)
          \/ VerificationRepository_delete_get(p)
          \/ VerificationRepository_delete_commit(p)

TokenSpec == Init /\ [][TokenNext]_vars

\* a token with this value is stored under this identifier and is unexpired
StoredAs(v, identifier) ==
    \E k \in DOMAIN verifications :
        /\ verifications[k].value = v
        /\ verifications[k].identifier = identifier
        /\ ~TokenExpired(k)

\* C13: verify_email with the value of a stored, unexpired password_reset
\* token, and reset_password with the value of a stored, unexpired
\* email_verification token, fail with ValidationError in their first step and
\* change no user, credential account or token.
C13_TokensDiscriminated ==
    [][\A p \in Procs : \A v \in VerificationValues :
          /\ (Starts(p, "verify_email", v) /\ StoredAs(v, PASSWORD_RESET))
                => /\ req'[p].pc = "done" /\ req'[p].result = "ValidationError"
                   /\ users' = users /\ accounts' = accounts
                   /\ verifications' = verifications
          /\ (Starts(p, "reset_password", v) /\ StoredAs(v, EMAIL_VERIFICATION))
                => /\ req'[p].pc = "done" /\ req'[p].result = "ValidationError"
                   /\ users' = users /\ accounts' = accounts
                   /\ verifications' = verifications
      ]_vars

\* C13 witness: verify_email has rejected a stored password_reset token and
\* reset_password has rejected a stored email_verification token
C13_Witness ==
    \E p \in Procs : \E q \in Procs \ {p} :
    \E v \in VerificationValues : \E w \in VerificationValues :
        /\ Responded(p, "verify_email", v, {"ValidationError"})
        /\ StoredAs(v, PASSWORD_RESET)
        /\ Responded(q, "reset_password", w, {"ValidationError"})
        /\ StoredAs(w, EMAIL_VERIFICATION)

----------------------------------------------------------------------------
(* AccountService: credentials *)

\* a credential check that accepts every password
verify_credential_any_password(email, password) == get_account_by_email(email)

\* AccountService.verify_credential(email, password): the account of that
\* e-mail if the password matches its stored hash, or None (0)
verify_credential(email, password) ==
    LET account == get_account_by_email(email)
    IN  IF account # 0 /\ accounts[account].password = PasswordHash(password)
        THEN account ELSE 0

\* AccountService.create_credential_account: ConflictError when the e-mail has
\* an account; otherwise the INSERT commits ("created") or the database
\* refuses it ("DatabaseError")
CreateAccountOutcomes(email) ==
    IF get_account_by_email(email) # 0 THEN {"ConflictError"}
    ELSE {"created", "DatabaseError"}

\* an account row that belongs to no user
Account_new_unowned(user_id, email, password) ==
    [user_id |-> 0, email |-> email, password |-> PasswordHash(password)]

\* the account row create_credential_account stores
Account_new(user_id, email, password) ==
    [user_id |-> user_id, email |-> email, password |-> PasswordHash(password)]

----------------------------------------------------------------------------
(* SessionService.generate_jwt_token, Repository[User] *)

\* str(user_id)
Str(user_id) == <<"str", user_id>>

\* int(datetime.timestamp()): seconds since the epoch
Timestamp(a) == a.t * 60

\* an access token that expires when it is issued
generate_jwt_token_expired(user_id, expires_in_minutes) ==
    [sub |-> Str(user_id), exp |-> Timestamp(get_current_utc_datetime),
     iat |-> Timestamp(get_current_utc_datetime), type |-> "access"]

\* SessionService.generate_jwt_token(user_id, expires_in_minutes): the payload
\* that is signed
generate_jwt_token(user_id, expires_in_minutes) ==
    LET now == get_current_utc_datetime
        expire == DatetimePlus(now, expires_in_minutes)
    IN  [sub |-> Str(user_id), exp |-> Timestamp(expire), iat |-> Timestamp(now),
         type |-> "access"]

\* a session row that belongs to no user
Session_new_unowned(user_id, n, expires_in_days) ==
    [user_id |-> 0,
     token |-> SessionToken(n),
     expires_at |-> DatetimePlus(get_current_utc_datetime, Days(expires_in_days))]

\* the session row create_session stores
Session_new(user_id, n, expires_in_days) ==
    [user_id |-> user_id,
     token |-> SessionToken(n),
     expires_at |-> DatetimePlus(get_current_utc_datetime, Days(expires_in_days))]

\* a pre-check that finds no user
UserRepository_exists_never(email) == FALSE

\* Repository.exists(email=email) on users
UserRepository_exists(email) == \E u \in DOMAIN users : users[u].email = email

\* a users table without the unique index on email
EmailUnique_unconstrained(email) == TRUE

\* the unique index on users.email admits a new row with this e-mail
EmailUnique(email) == ~\E u \in DOMAIN users : users[u].email = email

\* uuid4 of a new row: an id no row of the table has (rows are never deleted)
NewId(table) == Cardinality(DOMAIN table) + 1

\* the request is refused before it has done anything
Rejects(f, r) == [Returned(f, r) EXCEPT !.confirm = f.confirm]

\* the request of p returns or raises `r`; the response keeps what it carries
Responds(f, r) ==
    [f EXCEPT !.pc = "done", !.result = r, !.id = 0, !.acc = 0, !.at = 0]

----------------------------------------------------------------------------
(* AuthController: register and login *)

\* register lines 89-93; the payload was validated by
\* PasswordValidate.passwords_match before the controller runs
register(p, email, password, confirm_password, send_verification) ==
    /\ Finished(p)
    /\ LET f == [Frame("register", email) EXCEPT !.pw = password,
                                                 !.confirm = confirm_password,
                                                 !.flag = send_verification]
       IN  req' = [req EXCEPT ![p] =
                     IF password # confirm_password
                     THEN Rejects(f, "RequestValidationError")
                     ELSE IF UserRepository_exists(email)
                     THEN Rejects(f, "ValidationError")
                     ELSE [f EXCEPT !.pc = "register_create_user"]]
    /\ UNCHANGED <<roles, clock, ticks, users, accounts, sessions, verifications,
                   next_session, next_verification>>

\* register lines 95-96: INSERT of the user and commit; the unique index on
\* email refuses a second row with the same e-mail (DatabaseError)
register_create_user(p) ==
    /\ req[p].pc = "register_create_user"
    /\ IF EmailUnique(req[p].arg)
       THEN /\ users' = Insert(users, NewId(users),
                          [email |-> req[p].arg, email_verified |-> FALSE, deleted_at |-> None])
            /\ req' = [req EXCEPT ![p].uid = NewId(users),
                                  ![p].pc = "register_create_account"]
       ELSE /\ req' = [req EXCEPT ![p] = Responds(req[p], "DatabaseError")]
            /\ UNCHANGED users
    /\ UNCHANGED <<roles, clock, ticks, accounts, sessions, verifications,
                   next_session, next_verification>>

\* register lines 98-100: account_service.create_credential_account
register_create_account(p) ==
    /\ req[p].pc = "register_create_account"
    /\ \E outcome \in CreateAccountOutcomes(req[p].arg) :
          IF outcome = "created"
          THEN /\ accounts' = Insert(accounts, NewId(accounts),
                                Account_new(req[p].uid, req[p].arg, req[p].pw))
               /\ req' = Goto(p, "auth_create_session")
          ELSE /\ req' = [req EXCEPT ![p] = Responds(req[p], outcome)]
               /\ UNCHANGED accounts
    /\ UNCHANGED <<roles, clock, ticks, users, sessions, verifications,
                   next_session, next_verification>>

\* login lines 61-66: account_service.verify_credential
login(p, email, password) ==
    /\ Finished(p)
    /\ LET f == [Frame("login", email) EXCEPT !.pw = password]
           account == verify_credential(email, password)
       IN  req' = [req EXCEPT ![p] =
                     IF account = 0
                     THEN Rejects(f, "AuthenticationError")
                     ELSE [f EXCEPT !.uid = accounts[account].user_id,
                                    !.pc = "login_get_user"]]
    /\ UNCHANGED <<roles, clock, ticks, users, accounts, sessions, verifications,
                   next_session, next_verification>>

\* login line 68: user_repository.get_or_raise(account.user_id)
login_get_user(p) ==
    /\ req[p].pc = "login_get_user"
    /\ req' = IF req[p].uid \in DOMAIN users
              THEN Goto(p, "auth_create_session")
              ELSE [req EXCEPT ![p] = Responds(req[p], "DatabaseError")]
    /\ UNCHANGED <<roles, clock, ticks, users, accounts, sessions, verifications,
                   next_session, next_verification>>

\* _create_session_and_token lines 331-336: session_service.create_session
auth_create_session(p) ==
    /\ req[p].pc = "auth_create_session"
    /\ next_session <= MaxSessions
    /\ sessions' = Insert(sessions, next_session,
                     Session_new(req[p].uid, next_session, SESSION_EXPIRES_DAYS))
    /\ next_session' = next_session + 1
    /\ req' = [req EXCEPT ![p].sid = next_session, ![p].pc = "auth_issue_token"]
    /\ UNCHANGED <<roles, clock, ticks, users, accounts, verifications, next_verification>>

\* _create_session_and_token lines 337-341 and _set_session_cookie; login
\* returns; register sends the welcome e-mail (lines 105-115) and, when asked
\* to, builds the verification token (lines 117-122)
auth_issue_token(p) ==
    /\ req[p].pc = "auth_issue_token"
    /\ LET f == [req[p] EXCEPT
                   !.jwt = generate_jwt_token(req[p].uid, 60 * 24 * JWT_EXPIRES_DAYS),
                   !.cookie = sessions[req[p].sid].token]
       IN  IF req[p].op = "login"
           THEN /\ req' = [req EXCEPT ![p] = Responds(f, "200")]
                /\ UNCHANGED next_verification
           ELSE \E sent \in SendEmailOutcomes :
                   IF ~sent
                   THEN /\ req' = [req EXCEPT ![p] = Responds(f, "AppException")]
                        /\ UNCHANGED next_verification
                   ELSE IF ~req[p].flag
                   THEN /\ req' = [req EXCEPT ![p] = Responds(f, "201")]
                        /\ UNCHANGED next_verification
                   ELSE /\ next_verification <= MaxVerifications
                        /\ req' = [req EXCEPT ![p] =
                                     [f EXCEPT !.id = next_verification,
                                               !.at = create_verification_token(
                                                         f.uid, f.op, next_verification
                                                      ).expires_at.t,
                                               !.pc = "register_create_verification"]]
                        /\ next_verification' = next_verification + 1
    /\ UNCHANGED <<roles, clock, ticks, users, accounts, sessions, verifications, next_session>>

\* register lines 123-136: verification_repository.create, the verification
\* e-mail, and the response (lines 138-154)
register_create_verification(p) ==
    /\ req[p].pc = "register_create_verification"
    /\ verifications' = Insert(verifications, req[p].id,
                          [identifier |-> IssuedIdentifier(req[p].op),
                           user_id |-> req[p].uid,
                           value |-> VerificationValue(req[p].id),
                           expires_at |-> [t |-> req[p].at, aware |-> TRUE]])
    /\ \E sent \in SendEmailOutcomes :
          req' = [req EXCEPT ![p] =
                    Responds(req[p], IF sent THEN "201" ELSE "AppException")]
    /\ UNCHANGED <<roles, clock, ticks, users, accounts, sessions, next_session,
                   next_verification>>

\* the e-mails of the requests: one that has an account, one that is new
AuthEmails == {"a@x.com", "c@x.com"}

AuthNext ==
    \/ Tick(Days(JWT_EXPIRES_DAYS))
    \/ \E p \in Procs :
          \/ respond(p)
          \/ \E e \in AuthEmails : \E pw \in Passwords : \E cpw \in Passwords :
             \E flag \in BOOLEAN : register(p, e, pw, cpw, flag)
          \/ register_create_user(p)
          \/ register_create_account(p)
          \/ \E e \in AuthEmails : \E pw \in Passwords : login(p, e, pw)
          \/ login_get_user(p)
          \/ auth_create_session(p)
          \/ auth_issue_token(p)
          \/ register_create_verification(p)

AuthSpec == Init /\ [][AuthNext]_vars

----------------------------------------------------------------------------
(* Auth Orchestrator: properties *)

\* the rows of a table that belong to user u
RowsOf(table, u) == {k \in DOMAIN table : table[k].user_id = u}

\* table' is table with exactly one more row, which has id k
OneRowAdded(old, new, k) ==
    /\ k \notin DOMAIN old
    /\ DOMAIN new = DOMAIN old \cup {k}
    /\ \A j \in DOMAIN old : new[j] = old[j]

\* C16: a register that returns 201 has added exactly one row per step: the
\* user (email_verified false), then its credential account, then its
\* session, then (send_verification_email true) its email_verification token;
\* when it returns, these rows are stored, the user is the only one with that
\* e-mail, the account and the token are the only ones of the user, the
\* cookie is the session's token and the access token's subject is the user.
C16_RegisterSuccess ==
    /\ [](\A p \in Procs :
             (req[p].pc = "done" /\ req[p].op = "register" /\ req[p].result = "201"
                /\ req[p].flag)
                => LET u == req[p].uid IN
                   /\ req[p].pw = req[p].confirm
                   /\ u \in DOMAIN users
                   /\ users[u] = [email |-> req[p].arg, email_verified |-> FALSE, deleted_at |-> None]
                   /\ \A v \in DOMAIN users : users[v].email = req[p].arg => v = u
                   /\ \E a \in DOMAIN accounts :
                         /\ RowsOf(accounts, u) = {a}
                         /\ accounts[a].email = req[p].arg
                         /\ accounts[a].password = PasswordHash(req[p].pw)
                   /\ req[p].sid \in RowsOf(sessions, u)
                   /\ req[p].cookie = sessions[req[p].sid].token
                   /\ req[p].jwt.sub = Str(u)
                   /\ req[p].jwt.type = "access"
                   /\ \E k \in DOMAIN verifications :
                         /\ RowsOf(verifications, u) = {k}
                         /\ verifications[k].identifier = EMAIL_VERIFICATION)
    /\ [][\A p \in Procs :
             /\ (Leaves(p, "register_create_user") /\ req'[p].pc # "done")
                   => /\ OneRowAdded(users, users', req'[p].uid)
                      /\ users'[req'[p].uid] = [email |-> req[p].arg,
                                                email_verified |-> FALSE, deleted_at |-> None]
                      /\ accounts' = accounts /\ sessions' = sessions
                      /\ verifications' = verifications
             /\ (Leaves(p, "register_create_account") /\ req'[p].pc # "done")
                   => /\ \E a \in DOMAIN accounts' :
                            /\ OneRowAdded(accounts, accounts', a)
                            /\ accounts'[a].user_id = req[p].uid
                      /\ users' = users /\ sessions' = sessions
                      /\ verifications' = verifications
             /\ (Leaves(p, "auth_create_session") /\ req[p].op = "register")
                   => /\ OneRowAdded(sessions, sessions', req'[p].sid)
                      /\ sessions'[req'[p].sid].user_id = req[p].uid
                      /\ users' = users /\ accounts' = accounts
                      /\ verifications' = verifications
             /\ (Leaves(p, "auth_issue_token") /\ req[p].op = "register")
                   => /\ users' = users /\ accounts' = accounts
                      /\ sessions' = sessions /\ verifications' = verifications
                      /\ (req'[p].pc = "done" /\ req'[p].result = "201") => ~req[p].flag
             /\ Leaves(p, "register_create_verification")
                   => /\ OneRowAdded(verifications, verifications', req[p].id)
                      /\ verifications'[req[p].id].user_id = req[p].uid
                      /\ users' = users /\ accounts' = accounts
                      /\ sessions' = sessions
         ]_vars

\* C16 witness: register with send_verification_email has returned 201 for a
\* new e-mail, and the token of the new user is stored
C16_Witness ==
    \E p \in Procs :
        /\ Responded(p, "register", "c@x.com", {"201"})
        /\ req[p].flag
        /\ RowsOf(verifications, req[p].uid) # {}
        /\ RowsOf(sessions, req[p].uid) = {req[p].sid}

\* C17: register with an e-mail that a user has ends in its first step, with
\* ValidationError when the payload is valid (password equal to its
\* confirmation), and creates no user, account, session or token.
C17_RegisterDuplicateEmail ==
    [][\A p \in Procs : \A e \in Emails :
          (Starts(p, "register", e) /\ Registered(e))
             => /\ req'[p].pc = "done"
                /\ req'[p].result \in {"ValidationError", "RequestValidationError"}
                /\ req'[p].pw = req'[p].confirm => req'[p].result = "ValidationError"
                /\ users' = users /\ accounts' = accounts
                /\ sessions' = sessions /\ verifications' = verifications
                /\ next_session' = next_session
                /\ next_verification' = next_verification
      ]_vars

\* C17 witness: after a register created a user, a second register with the
\* same e-mail and a valid payload has failed with ValidationError
C17_Witness ==
    \E p \in Procs :
        /\ Responded(p, "register", "c@x.com", {"ValidationError"})
        /\ req[p].pw = req[p].confirm
        /\ Registered("c@x.com")

\* C18: no two user rows have the same e-mail.
C18_EmailsUnique ==
    \A u \in DOMAIN users : \A v \in DOMAIN users :
        users[u].email = users[v].email => u = v

\* C18 witness: two register requests with the same e-mail have both passed
\* the exists pre-check; one has created the user, the INSERT of the other
\* has been refused
C18_Witness ==
    \E p \in Procs : \E q \in Procs \ {p} :
        /\ Responded(p, "register", "c@x.com", {"DatabaseError"})
        /\ req[p].uid = 0
        /\ req[q].op = "register" /\ req[q].arg = "c@x.com"
        /\ req[q].uid \in DOMAIN users
        /\ Cardinality({u \in DOMAIN users : users[u].email = "c@x.com"}) = 1

\* C19: register commits the user, then the account, then the session: every
\* account belongs to a stored user and every session to a user that has an
\* account; the user INSERT writes no other table; the account INSERT happens
\* with the user stored and, when it fails, ends the request and leaves that
\* user unverified, without account and without session.
C19_RegisterCommitOrder ==
    /\ [](/\ \A a \in DOMAIN accounts : accounts[a].user_id \in DOMAIN users
          /\ \A k \in DOMAIN sessions : RowsOf(accounts, sessions[k].user_id) # {})
    /\ [][\A p \in Procs :
             /\ Leaves(p, "register_create_user")
                   => /\ accounts' = accounts /\ sessions' = sessions
                      /\ RowsOf(accounts, req'[p].uid) = {}
             /\ Leaves(p, "register_create_account")
                   => /\ req[p].uid \in DOMAIN users
                      /\ users' = users /\ sessions' = sessions
                      /\ RowsOf(sessions, req[p].uid) = {}
                      /\ IF req'[p].pc = "done"
                         THEN /\ req'[p].result \in {"DatabaseError", "ConflictError"}
                              /\ accounts' = accounts
                              /\ RowsOf(accounts, req[p].uid) = {}
                              /\ ~users'[req[p].uid].email_verified
                         ELSE /\ req'[p].pc = "auth_create_session"
                              /\ \E a \in DOMAIN accounts' :
                                    /\ OneRowAdded(accounts, accounts', a)
                                    /\ accounts'[a].user_id = req[p].uid
             /\ (Leaves(p, "auth_create_session") /\ req[p].op = "register")
                   => /\ RowsOf(accounts, req[p].uid) # {}
                      /\ users' = users /\ accounts' = accounts
         ]_vars

\* C19 witness: a register has failed at the account INSERT and no request is
\* in flight: its user is stored, unverified, without account and session
C19_Witness ==
    \E p \in Procs :
        /\ Responded(p, "register", "c@x.com", {"DatabaseError"})
        /\ req[p].uid \in DOMAIN users
        /\ users[req[p].uid] = [email |-> "c@x.com", email_verified |-> FALSE, deleted_at |-> None]
        /\ RowsOf(accounts, req[p].uid) = {}
        /\ RowsOf(sessions, req[p].uid) = {}
        /\ \A q \in Procs \ {p} : req[q].pc = "idle"

\* the e-mail has a credential account whose stored hash is that of password
RegisteredPair(e, password) ==
    \E a \in DOMAIN accounts :
        accounts[a].email = e /\ accounts[a].password = PasswordHash(password)

\* C20: login with a registered (email, password) pair passes the credential
\* check for the user of that e-mail and loads the user; its create_session
\* adds exactly one session, owned by that user, that expires
\* SESSION_EXPIRES_DAYS after that step; it then returns 200 with the
\* session's token as cookie and an access token whose subject is the user
\* and whose expiry is JWT_EXPIRES_DAYS after it was issued.
C20_LoginRegisteredPair ==
    [][\A p \in Procs :
          /\ \A e \in Emails :
                (Starts(p, "login", e) /\ RegisteredPair(e, req'[p].pw))
                   => /\ req'[p].pc = "login_get_user"
                      /\ req'[p].uid \in DOMAIN users
                      /\ users[req'[p].uid].email = e
                      /\ sessions' = sessions
          /\ Leaves(p, "login_get_user")
                => req'[p].pc = "auth_create_session" /\ sessions' = sessions
          /\ (Leaves(p, "auth_create_session") /\ req[p].op = "login")
                => /\ OneRowAdded(sessions, sessions', req'[p].sid)
                   /\ sessions'[req'[p].sid].user_id = req[p].uid
                   /\ sessions'[req'[p].sid].expires_at.t =
                         clock + SESSION_EXPIRES_DAYS * 24 * 60
                   /\ req'[p].pc = "auth_issue_token"
          /\ (Leaves(p, "auth_issue_token") /\ req[p].op = "login")
                => /\ req'[p].pc = "done" /\ req'[p].result = "200"
                   /\ req'[p].cookie = sessions[req[p].sid].token
                   /\ req'[p].jwt.sub = Str(req[p].uid)
                   /\ req'[p].jwt.iat = clock * 60
                   /\ req'[p].jwt.exp = (clock + JWT_EXPIRES_DAYS * 24 * 60) * 60
                   /\ sessions' = sessions
      ]_vars

\* C20 witness: after a register created the account of a new e-mail, login
\* with the same pair has returned 200, its session was created at another
\* time than its access token
C20_Witness ==
    \E p \in Procs :
        /\ Responded(p, "login", "c@x.com", {"200"})
        /\ RegisteredPair("c@x.com", req[p].pw)
        /\ req[p].sid \in RowsOf(sessions, req[p].uid)
        /\ users[req[p].uid].email = "c@x.com"
        /\ sessions[req[p].sid].expires_at.t - SESSION_EXPIRES_DAYS * 24 * 60
              # req[p].jwt.exp \div 60 - JWT_EXPIRES_DAYS * 24 * 60

\* C21: login with an (email, password) pair that matches no credential
\* account (wrong password, or an e-mail without account) fails with
\* AuthenticationError in its first step and creates no session.
C21_LoginWrongCredential ==
    [][\A p \in Procs : \A e \in Emails :
          (Starts(p, "login", e) /\ ~RegisteredPair(e, req'[p].pw))
             => /\ req'[p].pc = "done" /\ req'[p].result = "AuthenticationError"
                /\ sessions' = sessions
                /\ next_session' = next_session
      ]_vars

\* C21 witness: login has failed with a wrong password for an e-mail that
\* has an account, and login has failed for an e-mail without account
C21_Witness ==
    \E p \in Procs : \E q \in Procs \ {p} :
        /\ Responded(p, "login", "a@x.com", {"AuthenticationError"})
        /\ get_account_by_email("a@x.com") # 0
        /\ ~RegisteredPair("a@x.com", req[p].pw)
        /\ Responded(q, "login", "c@x.com", {"AuthenticationError"})
        /\ get_account_by_email("c@x.com") = 0

----------------------------------------------------------------------------
(* The flows that send e-mail after their writes: a new user registers,
   verifies the e-mail address and resets the password *)

NotifyEmails == {"c@x.com"}
NotifyPasswords == {"pw1"}

NotifyNext ==
    \E p \in Procs :
       \/ respond(p)
       \/ \E e \in NotifyEmails : \E pw \in NotifyPasswords :
             register(p, e, pw, pw, TRUE)
       \/ register_create_user(p)
       \/ register_create_account(p)
       \/ auth_create_session(p)
       \/ auth_issue_token(p)
       \/ register_create_verification(p)
       \/ \E e \in NotifyEmails : forgot_password(p, e)
       \/ VerificationRepository_create(p)
       \/ \E v \in VerificationValues : verify_email(p, v)
       \/ verify_email_get_user(p)
       \/ verify_email_update_get(p)
       \/ verify_email_update_commit(p)
       \/ \E v \in VerificationValues : \E pw \in Passwords : reset_password(p, v, pw)
       \/ reset_password_get_user(p)
       \/ reset_password_get_account(p)
       \/ reset_password_update_password(p)
       \/ VerificationRepository_delete_get(p)
       \/ VerificationRepository_delete_commit(p)

NotifySpec == Init /\ [][NotifyNext]_vars

\* the request of p ends in the error of a failed e-mail dispatch
EmailFails(p) == req'[p].pc = "done" /\ req'[p].result = "AppException"

\* C22: when the e-mail dispatch fails the request ends in AppException and
\* nothing is undone.  In verify_email and reset_password the failing step
\* has just deleted the token; the user stays verified, and no step of a
\* reset_password after its password update changes an account.  In register
\* the user, its credential account and its session stay stored (and the
\* verification token, when the second e-mail fails).
C22_NotificationFailureKeepsWrites ==
    [][\A p \in Procs :
          /\ (Leaves(p, "verification_delete_commit") /\ EmailFails(p))
                => /\ req[p].id \notin DOMAIN verifications'
                   /\ users' = users /\ accounts' = accounts
                   /\ sessions' = sessions
                   /\ req[p].op = "verify_email" => users'[req[p].uid].email_verified
          /\ Leaves(p, "reset_update_password")
                => accounts'[req[p].acc].password = PasswordHash(req[p].pw)
          /\ (req[p].op = "reset_password"
                /\ req[p].pc \in {"verification_delete_get", "verification_delete_commit"}
                /\ req'[p] # req[p])
                => accounts' = accounts
          /\ (Leaves(p, "auth_issue_token") /\ req[p].op = "register" /\ EmailFails(p))
                => /\ users' = users /\ accounts' = accounts
                   /\ sessions' = sessions /\ verifications' = verifications
                   /\ req[p].uid \in DOMAIN users'
                   /\ RowsOf(accounts', req[p].uid) # {}
                   /\ req[p].sid \in RowsOf(sessions', req[p].uid)
          /\ (Leaves(p, "register_create_verification") /\ EmailFails(p))
                => /\ users' = users /\ accounts' = accounts
                   /\ sessions' = sessions
                   /\ req[p].uid \in DOMAIN users'
                   /\ RowsOf(accounts', req[p].uid) # {}
                   /\ req[p].sid \in RowsOf(sessions', req[p].uid)
                   /\ req[p].id \in RowsOf(verifications', req[p].uid)
      ]_vars

\* C22 witness: a register and a reset_password have both ended in
\* AppException; the new user, its account and its session are stored, the
\* user is verified, the account holds the new password and both tokens are
\* deleted
C22_Witness ==
    \E p \in Procs : \E q \in Procs \ {p} : \E v \in VerificationValues :
        /\ Responded(p, "register", "c@x.com", {"AppException"})
        /\ req[p].uid \in DOMAIN users
        /\ users[req[p].uid].email_verified
        /\ req[p].sid \in RowsOf(sessions, req[p].uid)
        /\ Responded(q, "reset_password", v, {"AppException"})
        /\ req[q].pw # req[p].pw
        /\ \E a \in RowsOf(accounts, req[p].uid) :
              accounts[a].password = PasswordHash(req[q].pw)
        /\ verifications = << >>
        /\ next_verification > 2

\* C23: no step of a reset_password request creates, deletes or modifies a
\* session: the sessions table after the step is the table before it, so
\* every session keeps its token and its expires_at.
C23_ResetKeepsSessions ==
    [][\A p \in Procs :
          ((req[p].op = "reset_password" \/ req'[p].op = "reset_password")
             /\ req'[p] # req[p])
             => sessions' = sessions /\ next_session' = next_session
      ]_vars

\* C23 witness: reset_password has succeeded and changed the password of a
\* user whose session, created before, is stored and not expired
C23_Witness ==
    \E q \in Procs : \E v \in VerificationValues : \E k \in DOMAIN sessions :
        /\ Responded(q, "reset_password", v, {"ok"})
        /\ \E a \in RowsOf(accounts, sessions[k].user_id) :
              accounts[a].password = PasswordHash(req[q].pw)
        /\ req[q].pw \notin NotifyPasswords
        /\ Valid(k)
        /\ sessions[k].token = SessionToken(k)

----------------------------------------------------------------------------
(* The sweeps of the Session Manager, one request at a time *)

\* no other request is in flight
Alone(p) == \A q \in Procs \ {p} : req[q].pc \in {"idle", "done"}

\* the users that own sessions
SweepUsers == {1, 2}

SweepNext ==
    \/ Tick(Days(SESSION_EXPIRES_DAYS))
    \/ \E p \in Procs :
          \/ respond(p)
          \/ \E u \in SweepUsers : Alone(p) /\ create_session(p, u)
          \/ Alone(p) /\ cleanup_expired_sessions(p)
          \/ \E u \in SweepUsers : Alone(p) /\ delete_user_sessions(p, u)
          \/ SessionRepository_delete_get(p)
          \/ SessionRepository_delete_commit(p)

SweepSpec == Init /\ [][SweepNext]_vars

\* the sessions a sweep in flight has still to delete
Remaining(p) == {req[p].id} \cup req[p].todo

\* this step of p deletes exactly the stored session req[p].id
DeletesOwnRow(p) ==
    /\ req[p].id \in DOMAIN sessions
    /\ DOMAIN sessions' = DOMAIN sessions \ {req[p].id}
    /\ \A k \in DOMAIN sessions' : sessions'[k] = sessions[k]

\* this step of p takes the next session of its list, or finds the list empty
TakesNext(p, result) ==
    IF req[p].todo = {}
    THEN req'[p].pc = "done" /\ req'[p].result = result
    ELSE /\ req'[p].pc = "session_delete_get"
         /\ req'[p].id \in req[p].todo
         /\ req'[p].todo = req[p].todo \ {req'[p].id}

\* C24: cleanup_expired_sessions, with no other request in flight, lists
\* exactly the stored sessions with expires_at < now (count 0); each of its
\* deletes removes exactly one listed session, leaves every other session as
\* it is and adds one to the count; it ends when the list is empty and
\* returns the count, which is the number of sessions it deleted.
C24_CleanupDeletesExpired ==
    /\ [](\A p \in Procs :
             (req[p].op = "cleanup_expired_sessions"
                /\ req[p].pc \in {"session_delete_get", "session_delete_commit"})
                => /\ Remaining(p) \subseteq DOMAIN sessions
                   /\ req[p].id \notin req[p].todo
                   /\ \A k \in Remaining(p) : sessions[k].expires_at.t < clock)
    /\ [][\A p \in Procs :
             /\ Starts(p, "cleanup_expired_sessions", <<>>)
                   => LET expired == {k \in DOMAIN sessions :
                                         sessions[k].expires_at.t < clock}
                      IN  /\ sessions' = sessions
                          /\ req'[p].count = 0
                          /\ IF expired = {}
                             THEN req'[p].pc = "done" /\ req'[p].result = "count"
                             ELSE /\ req'[p].pc = "session_delete_get"
                                  /\ {req'[p].id} \cup req'[p].todo = expired
                                  /\ req'[p].id \notin req'[p].todo
             /\ (req[p].op = "cleanup_expired_sessions" /\ Leaves(p, "session_delete_get"))
                   => /\ req'[p].pc = "session_delete_commit"
                      /\ sessions' = sessions
                      /\ req'[p].count = req[p].count
                      /\ Remaining(p)' = Remaining(p)
             /\ (req[p].op = "cleanup_expired_sessions"
                   /\ Leaves(p, "session_delete_commit"))
                   => /\ DeletesOwnRow(p)
                      /\ req'[p].count = req[p].count + 1
                      /\ TakesNext(p, "count")
         ]_vars

\* C24 witness: with one session expired and one not, the sweep has returned
\* count 1; the session that is not expired is stored, the other is not
C24_Witness ==
    \E p \in Procs : \E k \in DOMAIN sessions :
        /\ Responded(p, "cleanup_expired_sessions", <<>>, {"count"})
        /\ req[p].count = 1
        /\ next_session = 3
        /\ DOMAIN sessions = {k}
        /\ Valid(k)
        /\ sessions[k].token = SessionToken(k)

\* C25: delete_user_sessions(u), with no other request in flight, lists
\* exactly the stored sessions of u; each of its deletes removes exactly one
\* listed session, which u owns, and leaves every other session as it is;
\* when it returns no session of u is stored.
C25_DeleteUserSessions ==
    /\ [](\A p \in Procs :
             (req[p].op = "delete_user_sessions"
                /\ req[p].pc \in {"session_delete_get", "session_delete_commit"})
                => /\ Remaining(p) \subseteq DOMAIN sessions
                   /\ req[p].id \notin req[p].todo
                   /\ \A k \in DOMAIN sessions :
                         k \in Remaining(p) <=> sessions[k].user_id = req[p].arg)
    /\ [][\A p \in Procs : \A u \in SweepUsers :
             /\ Starts(p, "delete_user_sessions", u)
                   => LET owned == {k \in DOMAIN sessions : sessions[k].user_id = u}
                      IN  /\ sessions' = sessions
                          /\ IF owned = {}
                             THEN req'[p].pc = "done" /\ req'[p].result = "ok"
                             ELSE /\ req'[p].pc = "session_delete_get"
                                  /\ {req'[p].id} \cup req'[p].todo = owned
                                  /\ req'[p].id \notin req'[p].todo
             /\ (req[p].op = "delete_user_sessions" /\ req[p].arg = u
                   /\ Leaves(p, "session_delete_get"))
                   => /\ req'[p].pc = "session_delete_commit"
                      /\ sessions' = sessions
                      /\ Remaining(p)' = Remaining(p)
             /\ (req[p].op = "delete_user_sessions" /\ req[p].arg = u
                   /\ Leaves(p, "session_delete_commit"))
                   => /\ DeletesOwnRow(p)
                      /\ sessions[req[p].id].user_id = u
                      /\ TakesNext(p, "ok")
                      /\ req'[p].pc = "done"
                            => \A k \in DOMAIN sessions' : sessions'[k].user_id # u
         ]_vars

\* C25 witness: delete_user_sessions has returned for a user who owned a
\* session, and the session of the other user is stored as it was created
C25_Witness ==
    \E p \in Procs : \E u \in SweepUsers : \E k \in DOMAIN sessions :
        /\ Responded(p, "delete_user_sessions", u, {"ok"})
        /\ next_session = 3
        /\ DOMAIN sessions = {k}
        /\ sessions[k].user_id # u
        /\ sessions[k].token = SessionToken(k)

----------------------------------------------------------------------------
(* Token Generator: the signed access token *)

\* settings.app.jwt_secret, and a key that is not the secret
jwt_secret == "jwt_secret"
OtherKey == "other_key"

\* a claim that the payload does not have
AbsentSub == <<>>
AbsentInt == -1
AbsentType == ""

\* jwt.encode(payload, key, algorithm="HS256"): a well-formed token whose
\* signature verifies under `key` only
jwt_encode(payload, key) == [payload |-> payload, key |-> key, wellformed |-> TRUE]

\* a decode that does not look at the expiry
jwt_decode_no_expiry(token, key) ==
    IF ~token.wellformed \/ token.key # key THEN "JWTError"
    ELSE IF token.payload.sub # AbsentSub /\ token.payload.sub[1] # "str"
    THEN "JWTError"
    ELSE "claims"

\* jwt.decode(token, key, algorithms=["HS256"]): JWTError for a token that is
\* malformed or signed with another key, for a subject that is not a string
\* and for an expiry that is before now; a claim that is absent is not checked
jwt_decode(token, key) ==
    IF ~token.wellformed \/ token.key # key THEN "JWTError"
    ELSE IF token.payload.sub # AbsentSub /\ token.payload.sub[1] # "str"
    THEN "JWTError"
    ELSE IF token.payload.exp # AbsentInt
            /\ token.payload.exp < Timestamp(datetime_utcnow)
    THEN "JWTError"
    ELSE "claims"

\* JWTPayload.model_validate(payload): all four fields are required
JWTPayload_model_validate(payload) ==
    IF \/ payload.sub = AbsentSub \/ payload.exp = AbsentInt
       \/ payload.iat = AbsentInt \/ payload.type = AbsentType
    THEN "ValidationError"
    ELSE "JWTPayload"

\* SessionService.verify_jwt_token: only JWTError is caught
verify_jwt_token(token) ==
    IF jwt_decode(token, jwt_secret) = "JWTError" THEN "None"
    ELSE JWTPayload_model_validate(token.payload)

\* the user ids and lifetimes (in minutes) that tokens are issued for
JwtUsers == {1, 2}
JwtLifetimes == {Days(1), Days(JWT_EXPIRES_DAYS)}

\* a caller of SessionService.generate_jwt_token(user_id, expires_in_minutes)
call_generate_jwt_token(p, user_id, expires_in_minutes) ==
    /\ Finished(p)
    /\ req' = [req EXCEPT ![p] =
                 [Frame("generate_jwt_token", <<user_id, expires_in_minutes>>) EXCEPT
                    !.jwt = generate_jwt_token(user_id, expires_in_minutes),
                    !.token = jwt_encode(generate_jwt_token(user_id, expires_in_minutes),
                                         jwt_secret),
                    !.pc = "done", !.result = "token"]]
    /\ UNCHANGED <<roles, clock, ticks, users, accounts, sessions, verifications,
                   next_session, next_verification>>

\* the access tokens that have been issued and are held by a client
IssuedTokens ==
    {req[q].token : q \in {r \in Procs : /\ req[r].op = "generate_jwt_token"
                                         /\ req[r].pc = "done"}}

\* the tokens a client can present: an issued token; the same payload signed
\* with another key; a token that is not a JWS; a payload signed with the
\* secret that lacks one claim or whose subject is a number
PresentedTokens ==
    LET lacking(pl) == {[pl EXCEPT !.sub = AbsentSub], [pl EXCEPT !.exp = AbsentInt],
                        [pl EXCEPT !.iat = AbsentInt], [pl EXCEPT !.type = AbsentType],
                        [pl EXCEPT !.sub = <<"int", 1>>]}
    IN  IssuedTokens
           \cup {jwt_encode(t.payload, OtherKey) : t \in IssuedTokens}
           \cup {[t EXCEPT !.wellformed = FALSE] : t \in IssuedTokens}
           \cup {jwt_encode(pl, jwt_secret) :
                    pl \in UNION {lacking(t.payload) : t \in IssuedTokens}}

\* a caller of SessionService.verify_jwt_token(token): the payload, None, or
\* the exception that passes the caller
call_verify_jwt_token(p, token) ==
    /\ Finished(p)
    /\ LET out == verify_jwt_token(token)
       IN  req' = [req EXCEPT ![p] =
                     [Frame("verify_jwt_token", <<>>) EXCEPT
                        !.token = token,
                        !.jwt = IF out = "JWTPayload" THEN token.payload
                                ELSE NoJWTPayload,
                        !.pc = "done", !.result = out]]
    /\ UNCHANGED <<roles, clock, ticks, users, accounts, sessions, verifications,
                   next_session, next_verification>>

JwtNext ==
    \/ Tick(Days(1))
    \/ \E p \in Procs :
          \/ respond(p)
          \/ \E u \in JwtUsers : \E m \in JwtLifetimes : call_generate_jwt_token(p, u, m)
          \/ \E t \in PresentedTokens : call_verify_jwt_token(p, t)

JwtSpec == Init /\ [][JwtNext]_vars

\* C26: generate_jwt_token(user, ttl) issues a payload with subject
\* str(user), issued-at now and expiry now + ttl; verify_jwt_token on that
\* token returns the same payload while now <= expiry, and None once now is
\* after the expiry.
C26_JwtRoundTrip ==
    [][\A p \in Procs :
          /\ \A u \in JwtUsers : \A m \in JwtLifetimes :
                Starts(p, "generate_jwt_token", <<u, m>>)
                   => /\ req'[p].jwt = [sub |-> Str(u), exp |-> (clock + m) * 60,
                                        iat |-> clock * 60, type |-> "access"]
                      /\ req'[p].token.payload = req'[p].jwt
          /\ \A q \in Procs \ {p} :
                (Starts(p, "verify_jwt_token", <<>>)
                   /\ req[q].op = "generate_jwt_token"
                   /\ req'[p].token = req[q].token)
                   => IF clock * 60 <= req[q].jwt.exp
                      THEN /\ req'[p].result = "JWTPayload"
                           /\ req'[p].jwt.sub = Str(req[q].arg[1])
                           /\ req'[p].jwt = req[q].jwt
                      ELSE /\ req'[p].result = "None"
                           /\ req'[p].jwt = NoJWTPayload
      ]_vars

\* C26 witness: a token was verified after it was issued and within its
\* lifetime, and the payload returned has the user's subject
C26_Witness ==
    \E p \in Procs : \E q \in Procs \ {p} :
        /\ req[q].op = "generate_jwt_token"
        /\ Responded(p, "verify_jwt_token", <<>>, {"JWTPayload"})
        /\ req[p].token = req[q].token
        /\ req[p].jwt.sub = Str(req[q].arg[1])
        /\ req[p].jwt.iat < clock * 60

\* the token is one that must not be accepted
InvalidToken(t) ==
    \/ ~t.wellformed
    \/ t.key # jwt_secret
    \/ t.payload.sub = AbsentSub \/ t.payload.sub[1] # "str"
    \/ t.payload.exp = AbsentInt \/ t.payload.iat = AbsentInt
    \/ t.payload.type = AbsentType
    \/ t.payload.exp < clock * 60

\* C27 (as claimed): verify_jwt_token returns None for every token that is
\* malformed, signed with another key, lacks a mandatory claim or is expired,
\* and raises nothing.
C27_VerifyFailsClosed ==
    [][\A p \in Procs :
          (Starts(p, "verify_jwt_token", <<>>) /\ InvalidToken(req'[p].token))
             => req'[p].result = "None"
      ]_vars

----------------------------------------------------------------------------
(* The flows the controller does not implement *)

\* a logout that ends the sessions and answers with success
logout_silent(p) ==
    /\ Finished(p)
    /\ sessions' = << >>
    /\ req' = [req EXCEPT ![p] = Returned(Frame("logout", <<>>), "200")]
    /\ UNCHANGED <<roles, clock, ticks, users, accounts, verifications, next_session,
                   next_verification>>

\* AuthController.logout: raise NoImplementationError
logout(p) ==
    /\ Finished(p)
    /\ req' = [req EXCEPT ![p] =
                 Returned(Frame("logout", <<>>), "NoImplementationError")]
    /\ UNCHANGED <<roles, clock, ticks, users, accounts, sessions, verifications,
                   next_session, next_verification>>

\* AuthController.refresh_token: raise NoImplementationError
refresh_token(p) ==
    /\ Finished(p)
    /\ req' = [req EXCEPT ![p] =
                 Returned(Frame("refresh_token", <<>>), "NoImplementationError")]
    /\ UNCHANGED <<roles, clock, ticks, users, accounts, sessions, verifications,
                   next_session, next_verification>>

\* AuthController.social_login: raise NoImplementationError
social_login(p) ==
    /\ Finished(p)
    /\ req' = [req EXCEPT ![p] =
                 Returned(Frame("social_login", <<>>), "NoImplementationError")]
    /\ UNCHANGED <<roles, clock, ticks, users, accounts, sessions, verifications,
                   next_session, next_verification>>

\* the users that hold sessions and access tokens
StubUsers == {1, 2}

StubNext ==
    \/ Tick(Days(SESSION_EXPIRES_DAYS))
    \/ \E p \in Procs :
          \/ respond(p)
          \/ \E u \in StubUsers : create_session(p, u)
          \/ \E u \in StubUsers :
                call_generate_jwt_token(p, u, Days(JWT_EXPIRES_DAYS))
          \/ logout(p)
          \/ refresh_token(p)
          \/ social_login(p)

StubSpec == Init /\ [][StubNext]_vars

\* the flows that are stubs
StubFlows == {"logout", "refresh_token", "social_login"}

\* C28: a call of logout, refresh_token or social_login ends at once with
\* NoImplementationError, which is neither NotFoundError nor a success, and the
\* step changes no user, account, session or verification row, no counter, and
\* no session cookie or access token held by another request.
C28_StubsFailDistinctly ==
    [][\A p \in Procs : \A op \in StubFlows :
          Starts(p, op, <<>>)
             => /\ req'[p].pc = "done"
                /\ req'[p].result = "NoImplementationError"
                /\ req'[p].result \notin {"NotFoundError", "200", "201", "ok", "none"}
                /\ req'[p].cookie = <<>>
                /\ req'[p].token = NoToken
                /\ UNCHANGED <<roles, clock, users, accounts, sessions, verifications,
                               next_session, next_verification>>
                /\ \A q \in Procs \ {p} : req'[q] = req[q]
      ]_vars

\* a session is stored, another request holds an access token, and a stub has
\* failed
C28_Witness ==
    /\ sessions # << >>
    /\ \E p, q \in Procs :
          /\ req[p].op \in StubFlows
          /\ req[p].pc = "done"
          /\ req[p].result = "NoImplementationError"
          /\ req[q].op = "generate_jwt_token"
          /\ req[q].token # NoToken

----------------------------------------------------------------------------
(* Role administration: AdminController.create_role *)

RoleNames == {"admin", "editor"}

\* an existence check that never finds a role
RoleRepository_exists_never(name) == FALSE

\* an existence check that passes over soft-deleted rows
RoleRepository_exists_live(name) ==
    \E k \in DOMAIN roles : roles[k].name = name /\ roles[k].deleted_at = None

\* role_repository.exists(name=...): result.first() is not None
RoleRepository_exists(name) == \E k \in DOMAIN roles : roles[k].name = name

\* Role.model_validate(role): the row built from the CreateRole payload
Role_new(name) == [name |-> name, is_active |-> TRUE, deleted_at |-> None]

\* role_repository.create returns the entity or raises DatabaseError for any
\* SQLAlchemyError of the commit
RoleCreateOutcomes == {"created", "DatabaseError"}

\* the id of a new role (uuid4): one that no stored role has
NewRoleId ==
    CHOOSE k \in (1..MaxRoles) \ DOMAIN roles :
       \A j \in (1..MaxRoles) \ DOMAIN roles : k <= j

\* create_role lines 56-61: the existence check and its rejection
create_role(p, name) ==
    /\ Finished(p)
    /\ req' = [req EXCEPT ![p] =
                 IF RoleRepository_exists(name)
                 THEN Returned(Frame("create_role", name), "ValidationError")
                 ELSE [Frame("create_role", name) EXCEPT !.pc = "create_role_create"]]
    /\ UNCHANGED <<roles, clock, ticks, users, accounts, sessions, verifications,
                   next_session, next_verification>>

\* an insert that looks the name up again and refuses a stored one
create_role_create_rechecking(p) ==
    /\ req[p].pc = "create_role_create"
    /\ IF \E k \in DOMAIN roles : roles[k].name = req[p].arg
       THEN /\ req' = [req EXCEPT ![p] = Returned(req[p], "ValidationError")]
            /\ UNCHANGED roles
       ELSE /\ Cardinality(DOMAIN roles) < MaxRoles
            /\ roles' = Insert(roles, NewRoleId, Role_new(req[p].arg))
            /\ req' = [req EXCEPT ![p] = Returned(req[p], "201")]
    /\ UNCHANGED <<clock, ticks, users, accounts, sessions, verifications,
                   next_session, next_verification>>

\* create_role lines 63-68: role_repository.create and the response
create_role_create(p) ==
    /\ req[p].pc = "create_role_create"
    /\ \E outcome \in RoleCreateOutcomes :
          IF outcome = "created"
          THEN /\ Cardinality(DOMAIN roles) < MaxRoles
               /\ roles' = Insert(roles, NewRoleId, Role_new(req[p].arg))
               /\ req' = [req EXCEPT ![p] = Returned(req[p], "201")]
          ELSE /\ req' = [req EXCEPT ![p] = Returned(req[p], "DatabaseError")]
               /\ UNCHANGED roles
    /\ UNCHANGED <<clock, ticks, users, accounts, sessions, verifications,
                   next_session, next_verification>>

RoleNext ==
    \E p \in Procs :
       \/ respond(p)
       \/ \E name \in RoleNames : create_role(p, name)
       \/ create_role_create(p)

RoleSpec == Init /\ [][RoleNext]_vars

\* a role named `name` is stored
NameStored(name) == \E k \in DOMAIN roles : roles[k].name = name

\* the stored roles named `name`
RolesNamed(table, name) == {k \in DOMAIN table : table[k].name = name}

\* C29: a create_role whose name is stored when the request looks it up ends
\* there with ValidationError, and the roles table is left as it was.
C29_CreateRoleDuplicateName ==
    [][\A p \in Procs : \A name \in RoleNames :
          (Starts(p, "create_role", name) /\ NameStored(name))
             => /\ req'[p].pc = "done"
                /\ req'[p].result = "ValidationError"
                /\ roles' = roles
      ]_vars

\* a request was refused for a name that is stored
C29_Witness ==
    \E p \in Procs :
       /\ req[p].op = "create_role"
       /\ req[p].pc = "done"
       /\ req[p].result = "ValidationError"
       /\ NameStored(req[p].arg)

\* C30: a request that has passed the existence check goes on to the insert
\* whatever has been stored since: its last step never raises ValidationError;
\* it either adds one role of its name, next to every role already stored, or
\* fails with DatabaseError and adds none.  (That two requests with the same
\* new name are past the check together is the witness.)
C30_CheckNotAtomicWithInsert ==
    [][\A p \in Procs :
          Leaves(p, "create_role_create")
             => /\ req'[p].pc = "done"
                /\ req'[p].result \in {"201", "DatabaseError"}
                /\ req'[p].result = "201"
                      => /\ \A k \in DOMAIN roles :
                               k \in DOMAIN roles' /\ roles'[k] = roles[k]
                         /\ Cardinality(DOMAIN roles') = Cardinality(DOMAIN roles) + 1
                         /\ Cardinality(RolesNamed(roles', req[p].arg))
                               = Cardinality(RolesNamed(roles, req[p].arg)) + 1
                /\ req'[p].result = "DatabaseError" => roles' = roles
      ]_vars

\* two requests with the same name both passed the check: one has created the
\* only role of that name, the other is about to insert
C30_Witness ==
    \E p, q \in Procs :
       /\ p # q
       /\ req[p].op = "create_role"
       /\ req[p].result = "201"
       /\ req[q].pc = "create_role_create"
       /\ req[q].arg = req[p].arg
       /\ Cardinality(RolesNamed(roles, req[p].arg)) = 1

----------------------------------------------------------------------------
(* Repository[Role]: soft delete, restore, update and delete *)

RoleIds == 1..MaxRoles

\* BaseDBModel.is_deleted
is_deleted(row) == row.deleted_at # None

\* Repository.get(id) on roles: the row, or None (0)
RoleRepository_get(id) == IF id \in DOMAIN roles THEN id ELSE 0

\* Repository.exists(id=id) on roles
RoleRepository_exists_id(id) == id \in DOMAIN roles

\* Repository.soft_delete(id), first await: get_or_raise and the is_deleted
\* test; the new deleted_at is read from the clock before update is called
RoleRepository_soft_delete_get(p) ==
    /\ req[p].pc = "role_soft_delete_get"
    /\ req' = IF RoleRepository_get(req[p].id) = 0
              THEN Return(p, "DatabaseError")
              ELSE IF is_deleted(roles[req[p].id])
              THEN Return(p, "DatabaseError")
              ELSE [req EXCEPT ![p].at = get_current_utc_datetime.t,
                               ![p].flag = TRUE,
                               ![p].pc = "role_update_get"]
    /\ UNCHANGED <<roles, clock, ticks, users, accounts, sessions, verifications,
                   next_session, next_verification>>

\* Repository.restore(id), first await: get_or_raise and the is_deleted test
RoleRepository_restore_get(p) ==
    /\ req[p].pc = "role_restore_get"
    /\ req' = IF RoleRepository_get(req[p].id) = 0
              THEN Return(p, "DatabaseError")
              ELSE IF ~is_deleted(roles[req[p].id])
              THEN Return(p, "DatabaseError")
              ELSE [req EXCEPT ![p].flag = FALSE, ![p].pc = "role_update_get"]
    /\ UNCHANGED <<roles, clock, ticks, users, accounts, sessions, verifications,
                   next_session, next_verification>>

\* Repository.update(id, ...), first await: get_or_raise
RoleRepository_update_get(p) ==
    /\ req[p].pc = "role_update_get"
    /\ req' = IF RoleRepository_get(req[p].id) = 0
              THEN Return(p, "DatabaseError")
              ELSE Goto(p, "role_update_commit")
    /\ UNCHANGED <<roles, clock, ticks, users, accounts, sessions, verifications,
                   next_session, next_verification>>

\* the row Repository.update writes: only the attributes passed are set:
\* deleted_at by soft_delete and restore, the payload by the update route
RoleUpdated(row, f) ==
    IF f.op \in {"crud_update"} THEN [row EXCEPT !.name = f.arg[2]]
    ELSE IF f.flag
    THEN [row EXCEPT !.deleted_at = <<[t |-> f.at, aware |-> TRUE]>>]
    ELSE [row EXCEPT !.deleted_at = None]

\* Repository.update, second await: UPDATE and commit.  An UPDATE that matches
\* no row raises StaleDataError, which the repository wraps in DatabaseError.
RoleRepository_update_commit(p) ==
    /\ req[p].pc = "role_update_commit"
    /\ IF req[p].id \in DOMAIN roles
       THEN /\ roles' = [roles EXCEPT ![req[p].id] = RoleUpdated(@, req[p])]
            /\ req' = Return(p, "200")
       ELSE /\ roles' = roles
            /\ req' = Return(p, "DatabaseError")
    /\ UNCHANGED <<clock, ticks, users, accounts, sessions, verifications,
                   next_session, next_verification>>

\* Repository.delete(id), first await: get_or_raise
RoleRepository_delete_get(p) ==
    /\ req[p].pc = "role_delete_get"
    /\ req' = IF RoleRepository_get(req[p].id) = 0
              THEN Return(p, "DatabaseError")
              ELSE Goto(p, "role_delete_commit")
    /\ UNCHANGED <<roles, clock, ticks, users, accounts, sessions, verifications,
                   next_session, next_verification>>

\* the roles table after DELETE ... WHERE id = id
RoleDeleted(id) == Remove(roles, id)

\* Repository.delete, second await: DELETE and commit
RoleRepository_delete_commit(p) ==
    /\ req[p].pc = "role_delete_commit"
    /\ roles' = RoleDeleted(req[p].id)
    /\ req' = Return(p, "200")
    /\ UNCHANGED <<clock, ticks, users, accounts, sessions, verifications,
                   next_session, next_verification>>

----------------------------------------------------------------------------
(* AdminController: soft_delete_role and delete_role *)

\* the outcome of soft_delete_role lines 93-98 for the role it has read
SoftDeleteRoleOutcome_unchecked(found) ==
    IF found = 0 THEN "NotFoundError" ELSE "soft_delete"

\* soft_delete_role lines 93-98
SoftDeleteRoleOutcome(found) ==
    IF found = 0 THEN "NotFoundError"
    ELSE IF is_deleted(roles[found]) THEN "ValidationError"
    ELSE "soft_delete"

\* AdminController.soft_delete_role, up to the call of the repository
soft_delete_role(p, role_id) ==
    /\ Finished(p)
    /\ LET f == Frame("soft_delete_role", role_id)
           outcome == SoftDeleteRoleOutcome(RoleRepository_get(role_id))
       IN  req' = [req EXCEPT ![p] =
                     IF outcome = "soft_delete"
                     THEN [f EXCEPT !.id = role_id, !.pc = "role_soft_delete_get"]
                     ELSE Returned(f, outcome)]
    /\ UNCHANGED <<roles, clock, ticks, users, accounts, sessions, verifications,
                   next_session, next_verification>>

\* AdminController.delete_role, up to the call of the repository
delete_role(p, role_id) ==
    /\ Finished(p)
    /\ LET f == Frame("delete_role", role_id)
       IN  req' = [req EXCEPT ![p] =
                     IF ~RoleRepository_exists_id(role_id)
                     THEN Returned(f, "NotFoundError")
                     ELSE [f EXCEPT !.id = role_id, !.pc = "role_delete_get"]]
    /\ UNCHANGED <<roles, clock, ticks, users, accounts, sessions, verifications,
                   next_session, next_verification>>

----------------------------------------------------------------------------
(* RolesRouter: the routes AppCRUDRouter builds for Role *)

\* exists_callback of RolesRouter: role_repo.exists(name=role.name)
exists_callback(name) == RoleRepository_exists(name)

\* get_one: repository.get, NotFoundError for no entity
crud_get_one(p, id) ==
    /\ Finished(p)
    /\ req' = [req EXCEPT ![p] =
                 Returned(Frame("crud_get_one", id),
                          IF RoleRepository_get(id) = 0 THEN "NotFoundError" ELSE "200")]
    /\ UNCHANGED <<roles, clock, ticks, users, accounts, sessions, verifications,
                   next_session, next_verification>>

\* create lines 241-251: exist_callback and its rejection; repository.create
\* follows as in create_role
crud_create(p, name) ==
    /\ Finished(p)
    /\ req' = [req EXCEPT ![p] =
                 IF exists_callback(name)
                 THEN Returned(Frame("crud_create", name), "ValidationError")
                 ELSE [Frame("crud_create", name) EXCEPT !.pc = "create_role_create"]]
    /\ UNCHANGED <<roles, clock, ticks, users, accounts, sessions, verifications,
                   next_session, next_verification>>

\* update line 272: repository.exists(id=id)
crud_update(p, id, name) ==
    /\ Finished(p)
    /\ req' = [req EXCEPT ![p] =
                 [Frame("crud_update", <<id, name>>) EXCEPT
                    !.id = id, !.flag = RoleRepository_exists_id(id),
                    !.pc = "crud_update_callback"]]
    /\ UNCHANGED <<roles, clock, ticks, users, accounts, sessions, verifications,
                   next_session, next_verification>>

\* an update route that looks at the existence of the id first
UpdateOutcome_not_found_first(exists, cb_result) ==
    IF ~exists THEN "NotFoundError"
    ELSE IF cb_result THEN "ValidationError"
    ELSE "update"

\* update lines 274-283: the duplicate test, then the existence test
UpdateOutcome(exists, cb_result) ==
    IF cb_result THEN "ValidationError"
    ELSE IF ~exists THEN "NotFoundError"
    ELSE "update"

\* update lines 274-285: exist_callback(data, repository) and the two tests
crud_update_callback(p) ==
    /\ req[p].pc = "crud_update_callback"
    /\ LET outcome == UpdateOutcome(req[p].flag, exists_callback(req[p].arg[2]))
       IN  req' = IF outcome = "update"
                  THEN Goto(p, "role_update_get")
                  ELSE Return(p, outcome)
    /\ UNCHANGED <<roles, clock, ticks, users, accounts, sessions, verifications,
                   next_session, next_verification>>

\* delete (the force route) lines 302-307
crud_delete(p, id) ==
    /\ Finished(p)
    /\ LET f == Frame("crud_delete", id)
       IN  req' = [req EXCEPT ![p] =
                     IF ~RoleRepository_exists_id(id)
                     THEN Returned(f, "NotFoundError")
                     ELSE [f EXCEPT !.id = id, !.pc = "role_delete_get"]]
    /\ UNCHANGED <<roles, clock, ticks, users, accounts, sessions, verifications,
                   next_session, next_verification>>

\* a soft_delete route that does not look at is_deleted
CrudSoftDeleteOutcome_unchecked(found) ==
    IF found = 0 THEN "AttributeError" ELSE "soft_delete"

\* soft_delete lines 323-331: exists.is_deleted is read first, and None has no
\* such attribute
CrudSoftDeleteOutcome(found) ==
    IF found = 0 THEN "AttributeError"
    ELSE IF is_deleted(roles[found]) THEN "ValidationError"
    ELSE "soft_delete"

\* soft_delete, up to the call of the repository
crud_soft_delete(p, id) ==
    /\ Finished(p)
    /\ LET f == Frame("crud_soft_delete", id)
           outcome == CrudSoftDeleteOutcome(RoleRepository_get(id))
       IN  req' = [req EXCEPT ![p] =
                     IF outcome = "soft_delete"
                     THEN [f EXCEPT !.id = id, !.pc = "role_soft_delete_get"]
                     ELSE Returned(f, outcome)]
    /\ UNCHANGED <<roles, clock, ticks, users, accounts, sessions, verifications,
                   next_session, next_verification>>

\* a restore route that answers ValidationError for no entity
CrudRestoreOutcome_validation(found) ==
    IF found = 0 THEN "ValidationError"
    ELSE IF ~is_deleted(roles[found]) THEN "ValidationError"
    ELSE "restore"

\* restore lines 350-358
CrudRestoreOutcome(found) ==
    IF found = 0 THEN "NotFoundError"
    ELSE IF ~is_deleted(roles[found]) THEN "ValidationError"
    ELSE "restore"

\* restore, up to the call of the repository
crud_restore(p, id) ==
    /\ Finished(p)
    /\ LET f == Frame("crud_restore", id)
           outcome == CrudRestoreOutcome(RoleRepository_get(id))
       IN  req' = [req EXCEPT ![p] =
                     IF outcome = "restore"
                     THEN [f EXCEPT !.id = id, !.pc = "role_restore_get"]
                     ELSE Returned(f, outcome)]
    /\ UNCHANGED <<roles, clock, ticks, users, accounts, sessions, verifications,
                   next_session, next_verification>>

\* the role routes, called one request at a time
CrudNext ==
    \E p \in Procs :
       \/ respond(p)
       \/ \E name \in RoleNames : Alone(p) /\ create_role(p, name)
       \/ \E name \in RoleNames : Alone(p) /\ crud_create(p, name)
       \/ create_role_create(p)
       \/ \E id \in RoleIds : Alone(p) /\ soft_delete_role(p, id)
       \/ \E id \in RoleIds : Alone(p) /\ delete_role(p, id)
       \/ \E id \in RoleIds : Alone(p) /\ crud_get_one(p, id)
       \/ \E id \in RoleIds : \E name \in RoleNames :
             Alone(p) /\ crud_update(p, id, name)
       \/ crud_update_callback(p)
       \/ \E id \in RoleIds : Alone(p) /\ crud_delete(p, id)
       \/ \E id \in RoleIds : Alone(p) /\ crud_soft_delete(p, id)
       \/ \E id \in RoleIds : Alone(p) /\ crud_restore(p, id)
       \/ RoleRepository_soft_delete_get(p)
       \/ RoleRepository_restore_get(p)
       \/ RoleRepository_update_get(p)
       \/ RoleRepository_update_commit(p)
       \/ RoleRepository_delete_get(p)
       \/ RoleRepository_delete_commit(p)

CrudSpec == Init /\ [][CrudNext]_vars

\* C31: soft_delete_role answers NotFoundError for an id that has no role and
\* ValidationError for a role that is soft-deleted, and neither changes the
\* roles table; delete_role answers NotFoundError exactly when the id has no
\* role, and otherwise removes that role, soft-deleted or not, and answers 200.
C31_RoleDeleteContracts ==
    /\ [][\A p \in Procs : \A id \in RoleIds :
             /\ Starts(p, "soft_delete_role", id)
                   => /\ id \notin DOMAIN roles
                         => req'[p].pc = "done" /\ req'[p].result = "NotFoundError"
                      /\ (id \in DOMAIN roles /\ roles[id].deleted_at # None)
                         => req'[p].pc = "done" /\ req'[p].result = "ValidationError"
                      /\ (id \in DOMAIN roles /\ roles[id].deleted_at = None)
                         => req'[p].pc # "done"
                      /\ roles' = roles
             /\ Starts(p, "delete_role", id)
                   => /\ (req'[p].pc = "done" /\ req'[p].result = "NotFoundError")
                         <=> id \notin DOMAIN roles
                      /\ id \in DOMAIN roles => req'[p].pc # "done"
                      /\ roles' = roles
             /\ (req[p].op = "delete_role" /\ req[p].arg = id /\ req[p].pc # "idle"
                   /\ req'[p].pc = "done" /\ req[p].pc # "done"
                   /\ id \in DOMAIN roles)
                   => /\ req'[p].result = "200"
                      /\ id \notin DOMAIN roles'
                      /\ \A k \in DOMAIN roles \ {id} :
                            k \in DOMAIN roles' /\ roles'[k] = roles[k]
       ]_vars
    /\ [](\A p \in Procs :
             (req[p].op = "delete_role" /\ req[p].pc = "done")
                => req[p].result \in {"200", "NotFoundError"})

\* a soft delete of a soft-deleted role was refused, and a delete_role of that
\* same soft-deleted role is about to remove it
C31_Witness ==
    \E p, q \in Procs :
       /\ req[p].op = "soft_delete_role"
       /\ req[p].pc = "done"
       /\ req[p].result = "ValidationError"
       /\ req[q].op = "delete_role"
       /\ req[q].arg = req[p].arg
       /\ req[q].pc = "role_delete_commit"
       /\ req[q].arg \in DOMAIN roles
       /\ roles[req[q].arg].deleted_at # None

----------------------------------------------------------------------------
(* The list endpoints: AdminController.get_roles and AppCRUDRouter.get_all *)

MaxPage == 3
MaxLimit == 3

\* PaginationParams.offset
offset(page, limit) == (page - 1) * limit

\* a page count that rounds down
page_count_floor(total, limit) == total \div limit

\* page_count = (total + pagination.limit - 1) // pagination.limit
page_count(total, limit) == (total + limit - 1) \div limit

\* the next_page_url / previous_page_url of a list response
page_url(base, page, limit) == <<[base_url |-> base, page |-> page, limit |-> limit]>>

\* the URL the page links start with
base_url(op) == IF op = "get_roles" THEN "/admin/roles" ELSE "/roles/roles"

\* the PaginationInfo of the response
PaginationInfo(op, page, limit, total) ==
    LET has_next == page < page_count(total, limit)
        has_previous == page > 1
    IN  [total_items |-> total,
         total_pages |-> page_count(total, limit),
         current_page |-> page,
         items_per_page |-> limit,
         has_next |-> has_next,
         has_previous |-> has_previous,
         next_page_url |-> IF has_next THEN page_url(base_url(op), page + 1, limit)
                           ELSE None,
         previous_page_url |-> IF has_previous
                               THEN page_url(base_url(op), page - 1, limit)
                               ELSE None]

\* how many rows SELECT ... OFFSET skip LIMIT limit returns
PageSize(skip, limit) ==
    LET left == Cardinality(DOMAIN roles) - skip
    IN  IF left <= 0 THEN 0 ELSE IF left < limit THEN left ELSE limit

\* Repository.all(skip=skip, limit=limit): the query has no ORDER BY, so the
\* database may return any rows of that number
RoleRepository_all(skip, limit) ==
    {rows \in SUBSET DOMAIN roles : Cardinality(rows) = PageSize(skip, limit)}

\* get_roles line 24 / get_all line 173: repository.all
list_all(p, op, page, limit) ==
    /\ Finished(p)
    /\ \E rows \in RoleRepository_all(offset(page, limit), limit) :
          req' = [req EXCEPT ![p] =
                    [Frame(op, <<page, limit>>) EXCEPT
                       !.at = offset(page, limit), !.todo = rows,
                       !.pc = "list_count"]]
    /\ UNCHANGED <<roles, clock, ticks, users, accounts, sessions, verifications,
                   next_session, next_verification>>

\* AdminController.get_roles, first await
get_roles(p, page, limit) == list_all(p, "get_roles", page, limit)

\* AppCRUDRouter.get_all, first await
crud_get_all(p, page, limit) == list_all(p, "crud_get_all", page, limit)

\* get_roles lines 27-53 / get_all lines 174-208: repository.count and the
\* response
list_count(p) ==
    /\ req[p].pc = "list_count"
    /\ LET total == Cardinality(DOMAIN roles)
           info == PaginationInfo(req[p].op, req[p].arg[1], req[p].arg[2], total)
       IN  req' = [req EXCEPT ![p] =
                     [Responds(req[p], "200") EXCEPT !.at = req[p].at,
                                                      !.count = total,
                                                      !.data = <<info>>]]
    /\ UNCHANGED <<roles, clock, ticks, users, accounts, sessions, verifications,
                   next_session, next_verification>>

\* the name of the k-th role stored
PageName(k) == <<"role", k>>

\* any number of roles up to MaxTotal is stored when the listing starts
PageInit ==
    /\ clock = 0
    /\ ticks = 0
    /\ users = [u \in UserIds |->
                  [email |-> IF u = 1 THEN "a@x.com" ELSE "b@x.com",
                   email_verified |-> FALSE, deleted_at |-> None]]
    /\ accounts = [a \in {1} |-> [user_id |-> 1, email |-> "a@x.com",
                                  password |-> PasswordHash("pw1")]]
    /\ sessions = << >>
    /\ verifications = << >>
    /\ next_session = 1
    /\ next_verification = 1
    /\ \E n \in 0..MaxTotal : roles = [k \in 1..n |-> Role_new(PageName(k))]
    /\ req = [p \in Procs |-> NoFrame]

PageNext ==
    \E p \in Procs :
       \/ respond(p)
       \/ \E page \in 1..MaxPage : \E limit \in 1..MaxLimit :
             Alone(p) /\ get_roles(p, page, limit)
       \/ \E page \in 1..MaxPage : \E limit \in 1..MaxLimit :
             Alone(p) /\ crud_get_all(p, page, limit)
       \/ list_count(p)

PageSpec == PageInit /\ [][PageNext]_vars

\* n is the least number of pages of `limit` rows that hold `total` rows
Ceil(total, limit, n) == n * limit >= total /\ (n - 1) * limit < total

\* the response carries a PaginationInfo
Listed(f) == f.pc = "done" /\ f.op \in {"get_roles", "crud_get_all"}

\* C32: the list endpoints query the repository with skip = (page - 1) * limit,
\* and report total_pages = ceil(total / limit), has_next = (page < total_pages),
\* has_previous = (page > 1), a next_page_url exactly when has_next and a
\* previous_page_url exactly when has_previous.
C32_Pagination ==
    /\ [][\A p \in Procs : \A page \in 1..MaxPage : \A limit \in 1..MaxLimit :
             \A op \in {"get_roles", "crud_get_all"} :
                Starts(p, op, <<page, limit>>)
                   => /\ req'[p].at = (page - 1) * limit
                      /\ Cardinality(req'[p].todo) <= limit
       ]_vars
    /\ [](\A p \in Procs :
             Listed(req[p])
                => LET info == req[p].data[1]
                       page == req[p].arg[1]
                       limit == req[p].arg[2]
                       total == Cardinality(DOMAIN roles)
                   IN  /\ req[p].at = (page - 1) * limit
                       /\ info.total_items = total
                       /\ info.current_page = page
                       /\ info.items_per_page = limit
                       /\ Ceil(total, limit, info.total_pages)
                       /\ info.has_next <=> page < info.total_pages
                       /\ info.has_previous <=> page > 1
                       /\ info.next_page_url # None <=> info.has_next
                       /\ info.previous_page_url # None <=> info.has_previous
                       /\ info.has_next => info.next_page_url[1].page = page + 1
                       /\ info.has_previous
                             => info.previous_page_url[1].page = page - 1)

\* a middle page of a total that the limit does not divide: both links are set
C32_Witness ==
    \E p \in Procs :
       /\ Listed(req[p])
       /\ req[p].arg = <<2, 2>>
       /\ req[p].count = 5
       /\ req[p].data[1].total_pages = 3
       /\ req[p].data[1].has_next
       /\ req[p].data[1].has_previous

\* role k is stored and soft-deleted
SoftDeleted(table, k) == k \in DOMAIN table /\ table[k].deleted_at # None

\* role k is stored and not soft-deleted
NotDeleted(table, k) == k \in DOMAIN table /\ table[k].deleted_at = None

\* C33: with the calls served one after the other, the soft_delete route
\* refuses a soft-deleted entity and the restore route one that is not, with
\* ValidationError and before any call of Repository.soft_delete / restore; a
\* soft_delete that answers 200 has taken its entity from not-deleted to
\* soft-deleted and a restore that answers 200 from soft-deleted to
\* not-deleted, and no other step changes whether a stored entity is
\* soft-deleted.
C33_SoftDeleteTransitions ==
    [][/\ \A p \in Procs : \A id \in RoleIds :
            /\ (Starts(p, "crud_soft_delete", id) /\ SoftDeleted(roles, id))
                  => /\ req'[p].pc = "done"
                     /\ req'[p].result = "ValidationError"
                     /\ roles' = roles
            /\ (Starts(p, "crud_restore", id) /\ NotDeleted(roles, id))
                  => /\ req'[p].pc = "done"
                     /\ req'[p].result = "ValidationError"
                     /\ roles' = roles
            /\ (req[p].op = "crud_soft_delete" /\ req[p].arg = id
                  /\ req[p].pc # "done" /\ req'[p].pc = "done"
                  /\ req'[p].result = "200")
                  => NotDeleted(roles, id) /\ SoftDeleted(roles', id)
            /\ (req[p].op = "crud_restore" /\ req[p].arg = id
                  /\ req[p].pc # "done" /\ req'[p].pc = "done"
                  /\ req'[p].result = "200")
                  => SoftDeleted(roles, id) /\ NotDeleted(roles', id)
       /\ \A k \in RoleIds :
            /\ (NotDeleted(roles, k) /\ SoftDeleted(roles', k))
                  => \E p \in Procs :
                        /\ req[p].op \in {"crud_soft_delete", "soft_delete_role"}
                        /\ req[p].arg = k
                        /\ Leaves(p, "role_update_commit")
            /\ (SoftDeleted(roles, k) /\ NotDeleted(roles', k))
                  => \E p \in Procs :
                        /\ req[p].op = "crud_restore"
                        /\ req[p].arg = k
                        /\ Leaves(p, "role_update_commit")
      ]_vars

\* a second soft_delete of an entity was refused, and a restore of that entity
\* is about to clear its deleted_at
C33_Witness ==
    \E p, q \in Procs :
       /\ req[p].op = "crud_soft_delete"
       /\ req[p].pc = "done"
       /\ req[p].result = "ValidationError"
       /\ req[q].op = "crud_restore"
       /\ req[q].arg = req[p].arg
       /\ req[q].pc = "role_update_commit"
       /\ SoftDeleted(roles, req[q].arg)

\* the routes that answer NotFoundError at once for an id that has no entity
NotFoundRoutes == {"crud_get_one", "crud_delete", "crud_restore"}

\* p makes the duplicate and existence tests of an update whose id had no entity
UpdateOfMissing(p) ==
    /\ req[p].op = "crud_update"
    /\ Leaves(p, "crud_update_callback")
    /\ ~req[p].flag

\* C34 (as claimed): for an id that has no entity the update route raises
\* NotFoundError.
C34_UpdateOfMissingIsNotFound ==
    [][\A p \in Procs :
          UpdateOfMissing(p)
             => req'[p].pc = "done" /\ req'[p].result = "NotFoundError"
      ]_vars

\* C34 (amended): for an id that has no entity, get_one, force-delete and
\* restore raise NotFoundError and soft_delete raises AttributeError; update
\* raises NotFoundError unless exists_callback reports a duplicate of the
\* payload, and then ValidationError.  None of these requests changes a row.
C34_MissingId ==
    [][\A p \in Procs :
          /\ \A id \in RoleIds :
                id \notin DOMAIN roles
                   => /\ \A op \in NotFoundRoutes :
                            Starts(p, op, id)
                               => /\ req'[p].pc = "done"
                                  /\ req'[p].result = "NotFoundError"
                                  /\ roles' = roles
                      /\ Starts(p, "crud_soft_delete", id)
                            => /\ req'[p].pc = "done"
                               /\ req'[p].result = "AttributeError"
                               /\ roles' = roles
                      /\ \A name \in RoleNames :
                            Starts(p, "crud_update", <<id, name>>)
                               => ~req'[p].flag /\ roles' = roles
          /\ UpdateOfMissing(p)
                => /\ req'[p].pc = "done"
                   /\ req'[p].result = IF NameStored(req[p].arg[2])
                                       THEN "ValidationError"
                                       ELSE "NotFoundError"
                   /\ roles' = roles
      ]_vars

\* for ids that have no entity, a soft_delete has raised AttributeError and an
\* update whose payload names a stored role has raised ValidationError
C34_Witness ==
    \E p, q \in Procs :
       /\ req[p].op = "crud_soft_delete"
       /\ req[p].pc = "done"
       /\ req[p].result = "AttributeError"
       /\ req[p].arg \notin DOMAIN roles
       /\ req[q].op = "crud_update"
       /\ req[q].pc = "done"
       /\ req[q].result = "ValidationError"
       /\ req[q].arg[1] \notin DOMAIN roles
       /\ NameStored(req[q].arg[2])

\* C35: a create whose payload exists_callback reports as a duplicate ends with
\* ValidationError before repository.create; an update whose payload it
\* reports as a duplicate ends with ValidationError before repository.update,
\* whether or not the id has an entity; neither changes a row.
C35_DuplicateRejected ==
    [][\A p \in Procs :
          /\ \A name \in RoleNames :
                (Starts(p, "crud_create", name) /\ NameStored(name))
                   => /\ req'[p].pc = "done"
                      /\ req'[p].result = "ValidationError"
                      /\ roles' = roles
          /\ (req[p].op = "crud_update" /\ Leaves(p, "crud_update_callback")
                /\ NameStored(req[p].arg[2]))
                => /\ req'[p].pc = "done"
                   /\ req'[p].result = "ValidationError"
                   /\ roles' = roles
      ]_vars

\* a duplicate create was refused, and so was a duplicate update of an id that
\* has no entity
C35_Witness ==
    \E p, q \in Procs :
       /\ req[p].op = "crud_create"
       /\ req[p].pc = "done"
       /\ req[p].result = "ValidationError"
       /\ NameStored(req[p].arg)
       /\ req[q].op = "crud_update"
       /\ req[q].pc = "done"
       /\ req[q].result = "ValidationError"
       /\ req[q].arg[1] \notin DOMAIN roles
       /\ req[q].arg[2] = req[p].arg

----------------------------------------------------------------------------
(* AppCRUDRouter.__init__ and add_crud_routes *)

\* the routes of a router that always has the restore route
add_crud_routes_with_restore(include_create, include_update, include_delete) ==
    {"get_all", "get_one", "restore"}
       \cup (IF include_create THEN {"create"} ELSE {})
       \cup (IF include_update THEN {"update"} ELSE {})
       \cup (IF include_delete THEN {"soft_delete", "delete"} ELSE {})

\* add_crud_routes: the handlers given to http_router.add_api_route
add_crud_routes(include_create, include_update, include_delete) ==
    {"get_all", "get_one"}
       \cup (IF include_create THEN {"create"} ELSE {})
       \cup (IF include_update THEN {"update"} ELSE {})
       \cup (IF include_delete THEN {"soft_delete", "restore", "delete"} ELSE {})

\* the keyword arguments of the constructor that matter here; a schema is
\* given (TRUE) or left None (FALSE)
RouterArgs ==
    [create_schema : BOOLEAN, update_schema : BOOLEAN, include_update : BOOLEAN,
     include_create : BOOLEAN, include_delete : BOOLEAN]

\* AppCRUDRouter.__init__ lines 94-109
AppCRUDRouter_init(p, args) ==
    /\ Finished(p)
    /\ LET f == Frame("AppCRUDRouter", args)
       IN  req' = [req EXCEPT ![p] =
                     IF args.include_create /\ ~args.create_schema
                     THEN Returned(f, "ValueError")
                     ELSE IF args.include_update /\ ~args.update_schema
                     THEN Returned(f, "ValueError")
                     ELSE [Returned(f, "AppCRUDRouter") EXCEPT
                             !.todo = add_crud_routes(args.include_create,
                                                      args.include_update,
                                                      args.include_delete)]]
    /\ UNCHANGED <<roles, clock, ticks, users, accounts, sessions, verifications,
                   next_session, next_verification>>

RouterNext ==
    \E p \in Procs :
       \/ respond(p)
       \/ \E args \in RouterArgs : AppCRUDRouter_init(p, args)

RouterSpec == Init /\ [][RouterNext]_vars

\* the call of the constructor in frame f has returned or raised
Constructed(f) == f.op = "AppCRUDRouter" /\ f.pc = "done"

\* C36: the constructor raises ValueError exactly when include_create comes
\* without a create_schema or include_update without an update_schema, and then
\* registers nothing; otherwise the router has get_all and get_one, create iff
\* include_create, update iff include_update, and each of soft_delete, restore
\* and delete iff include_delete, and no other route.
C36_RouterRegistration ==
    \A p \in Procs :
       Constructed(req[p])
          => LET args == req[p].arg
                 routes == req[p].todo
             IN  /\ req[p].result \in {"ValueError", "AppCRUDRouter"}
                 /\ req[p].result = "ValueError"
                       <=> \/ args.include_create /\ ~args.create_schema
                           \/ args.include_update /\ ~args.update_schema
                 /\ req[p].result = "ValueError" => routes = {}
                 /\ req[p].result = "AppCRUDRouter"
                       => /\ {"get_all", "get_one"} \subseteq routes
                          /\ "create" \in routes <=> args.include_create
                          /\ "update" \in routes <=> args.include_update
                          /\ \A r \in {"soft_delete", "restore", "delete"} :
                                r \in routes <=> args.include_delete
                          /\ routes \subseteq {"get_all", "get_one", "create", "update",
                                               "soft_delete", "restore", "delete"}

\* a router without the delete routes was built, and a construction failed for
\* lack of an update_schema
C36_Witness ==
    \E p, q \in Procs :
       /\ Constructed(req[p])
       /\ req[p].result = "AppCRUDRouter"
       /\ ~req[p].arg.include_delete
       /\ req[p].arg.include_create
       /\ req[p].todo = {"get_all", "get_one", "create"}
       /\ Constructed(req[q])
       /\ req[q].result = "ValueError"
       /\ req[q].arg.create_schema
       /\ ~req[q].arg.update_schema

----------------------------------------------------------------------------
(* The sweep next to other requests *)

\* the sweep of p comes to a listed session that is no longer stored
SweepFindsGone(p) ==
    /\ req[p].op = "cleanup_expired_sessions"
    /\ Leaves(p, "session_delete_get")
    /\ req[p].id \notin DOMAIN sessions

\* C37: when the sweep comes to a listed session that another request has
\* deleted since the listing, it ends with DatabaseError at that session and
\* deletes nothing more: every session still stored, the expired ones it had
\* yet to delete included, stays stored.
C37_SweepAbortsOnGoneSession ==
    [][\A p \in Procs :
          SweepFindsGone(p)
             => /\ req'[p].pc = "done"
                /\ req'[p].result = "DatabaseError"
                /\ sessions' = sessions
                /\ \A k \in req[p].todo \cap DOMAIN sessions : k \in DOMAIN sessions'
      ]_vars

\* the sweep has ended with DatabaseError after another request deleted a
\* session, and an expired session is still stored
C37_Witness ==
    \E p, q \in Procs :
       /\ req[p].op = "cleanup_expired_sessions"
       /\ req[p].pc = "done"
       /\ req[p].result = "DatabaseError"
       /\ req[q].op = "delete_session"
       /\ req[q].pc = "done"
       /\ req[q].result = "ok"
       /\ req[q].arg \notin DOMAIN sessions
       /\ \E k \in DOMAIN sessions : sessions[k].expires_at.t < clock

----------------------------------------------------------------------------
(* Two verify_email requests with one token *)

\* the user whose e-mail is to be verified, and the token sent to that user
RaceUser == 1
RaceToken == VerificationValue(1)

\* the state after one send_verification_email for RaceUser at time 0
RaceInit ==
    /\ clock = 0
    /\ ticks = 0
    /\ users = [u \in UserIds |->
                  [email |-> IF u = 1 THEN "a@x.com" ELSE "b@x.com",
                   email_verified |-> FALSE, deleted_at |-> None]]
    /\ accounts = [a \in {1} |-> [user_id |-> 1, email |-> "a@x.com",
                                  password |-> PasswordHash("pw1")]]
    /\ sessions = << >>
    /\ verifications = [k \in {1} |->
                          [identifier |-> EMAIL_VERIFICATION,
                           user_id |-> RaceUser,
                           value |-> RaceToken,
                           expires_at |-> [t |-> Hours(EMAIL_VERIFICATION_EXPIRES_HOURS),
                                           aware |-> TRUE]]]
    /\ next_session = 1
    /\ next_verification = 2
    /\ roles = << >>
    /\ req = [p \in Procs |-> NoFrame]

\* each process sends one verify_email request with the token; the responses
\* stay in place, so the last state shows both
RaceNext ==
    \/ Tick(30)
    \/ \E p \in Procs :
          \/ verify_email(p, RaceToken)
          \/ verify_email_get_user(p)
          \/ verify_email_update_get(p)
          \/ verify_email_update_commit(p)
          \/ VerificationRepository_delete_get(p)
          \/ VerificationRepository_delete_commit(p)

RaceSpec == RaceInit /\ [][RaceNext]_vars

\* both requests have ended, neither by a failure of the e-mail dispatch, and
\* the token has not expired by now, hence at no time before
BothRedeemed ==
    /\ \A p \in Procs :
          /\ req[p].op = "verify_email"
          /\ req[p].arg = RaceToken
          /\ req[p].pc = "done"
          /\ req[p].result # "AppException"
    /\ clock <= Hours(EMAIL_VERIFICATION_EXPIRES_HOURS)

\* C38: however the steps of two verify_email requests with the same valid
\* token of an unverified user interleave, once both have ended the user is
\* verified, the token is deleted, and at least one request has succeeded.
C38_ConcurrentVerifyEmail ==
    BothRedeemed
       => /\ users[RaceUser].email_verified
          /\ \A k \in DOMAIN verifications : verifications[k].value # RaceToken
          /\ \E p \in Procs : req[p].result \in {"verified", "already_verified"}

\* both requests passed the lookup; one verified the user and deleted the
\* token, the other found the token gone at its delete
C38_Witness ==
    /\ BothRedeemed
    /\ \E p, q \in Procs :
          /\ req[p].result = "verified"
          /\ req[q].result = "DatabaseError"

----------------------------------------------------------------------------
(* Several password_reset tokens of one user *)

\* stored token k is an unexpired password_reset token with value v
Redeemable(k, v) ==
    /\ k \in DOMAIN verifications
    /\ verifications[k].identifier = PASSWORD_RESET
    /\ verifications[k].value = v
    /\ clock <= verifications[k].expires_at.t

\* C39: the delete at the end of reset_password removes the redeemed token
\* and no other row, no other step of reset_password touches the tokens, and
\* a reset_password that arrives with another stored, unexpired password_reset
\* token goes on to the user lookup, also after a reset of the same user
\* succeeded, and replaces the password once more.
C39_ResetConsumesOnlyItsToken ==
    [][\A p \in Procs :
          /\ (Leaves(p, "verification_delete_commit") /\ req[p].op = "reset_password")
                => /\ DOMAIN verifications' = DOMAIN verifications \ {req[p].id}
                   /\ \A k \in DOMAIN verifications' : verifications'[k] = verifications[k]
          /\ (req[p].op = "reset_password" /\ req[p].pc # "verification_delete_commit"
                /\ req'[p] # req[p])
                => verifications' = verifications
          /\ \A v \in VerificationValues : \A pw \in Passwords :
                (/\ Starts(p, "reset_password", v)
                 /\ req'[p].pw = pw
                 /\ \E k \in DOMAIN verifications : Redeemable(k, v))
                   => /\ req'[p].pc = "reset_get_user"
                      /\ Redeemable(req'[p].id, v)
                      /\ req'[p].uid = verifications[req'[p].id].user_id
          /\ Leaves(p, "reset_update_password")
                => accounts'[req[p].acc].password = PasswordHash(req[p].pw)
      ]_vars

\* C39 witness: a reset of a user has succeeded and its token is gone, while
\* another reset of the same user under a different token, still stored, has
\* written a different password, which the account now holds
C39_Witness ==
    \E p \in Procs : \E q \in Procs \ {p} : \E v \in VerificationValues :
        /\ Responded(q, "reset_password", v, {"ok"})
        /\ Token(v, PASSWORD_RESET) = 0
        /\ UpdatedUnderToken(p, req[p].id)
        /\ req[p].id \in DOMAIN verifications
        /\ req[p].arg # v
        /\ req[p].pw # req[q].pw
        /\ accounts[req[p].acc].password = PasswordHash(req[p].pw)

----------------------------------------------------------------------------
(* Soft-deleted rows and the existence checks *)

\* the ids a users row can have here: the two of Init and one registration
SoftUserIds == {1, 2, 3}

\* Repository.soft_delete(id) on users is called
UserRepository_soft_delete(p, id) ==
    /\ Finished(p)
    /\ req' = [req EXCEPT ![p] =
                 [Frame("user_soft_delete", id) EXCEPT !.id = id,
                                                       !.pc = "user_soft_delete_get"]]
    /\ UNCHANGED <<roles, clock, ticks, users, accounts, sessions, verifications,
                   next_session, next_verification>>

\* Repository.soft_delete, first await: get_or_raise and the is_deleted test
UserRepository_soft_delete_get(p) ==
    /\ req[p].pc = "user_soft_delete_get"
    /\ req' = IF req[p].id \notin DOMAIN users
              THEN Return(p, "DatabaseError")
              ELSE IF is_deleted(users[req[p].id])
              THEN Return(p, "DatabaseError")
              ELSE [req EXCEPT ![p].at = get_current_utc_datetime.t,
                               ![p].pc = "user_update_get"]
    /\ UNCHANGED <<roles, clock, ticks, users, accounts, sessions, verifications,
                   next_session, next_verification>>

\* Repository.update(id, deleted_at=...), first await: get_or_raise
UserRepository_update_get(p) ==
    /\ req[p].pc = "user_update_get"
    /\ req' = IF req[p].id \notin DOMAIN users
              THEN Return(p, "DatabaseError")
              ELSE Goto(p, "user_update_commit")
    /\ UNCHANGED <<roles, clock, ticks, users, accounts, sessions, verifications,
                   next_session, next_verification>>

\* Repository.update second await: the UPDATE and commit
UserRepository_update_commit(p) ==
    /\ req[p].pc = "user_update_commit"
    /\ users' = [users EXCEPT ![req[p].id].deleted_at =
                                  <<[t |-> req[p].at, aware |-> TRUE]>>]
    /\ req' = Return(p, "200")
    /\ UNCHANGED <<roles, clock, ticks, accounts, sessions, verifications,
                   next_session, next_verification>>

\* requests are served one at a time
SoftDeleteNext ==
    \E p \in Procs :
       \/ respond(p)
       \/ \E name \in RoleNames : Alone(p) /\ create_role(p, name)
       \/ create_role_create(p)
       \/ \E id \in RoleIds : Alone(p) /\ soft_delete_role(p, id)
       \/ RoleRepository_soft_delete_get(p)
       \/ RoleRepository_update_get(p)
       \/ RoleRepository_update_commit(p)
       \/ \E e \in AuthEmails : Alone(p) /\ register(p, e, "pw1", "pw1", FALSE)
       \/ register_create_user(p)
       \/ register_create_account(p)
       \/ auth_create_session(p)
       \/ auth_issue_token(p)
       \/ \E id \in SoftUserIds : Alone(p) /\ UserRepository_soft_delete(p, id)
       \/ UserRepository_soft_delete_get(p)
       \/ UserRepository_update_get(p)
       \/ UserRepository_update_commit(p)

SoftDeleteSpec == Init /\ [][SoftDeleteNext]_vars

\* a soft-deleted role named `name` is stored
SoftDeletedRoleNamed(name) ==
    \E k \in DOMAIN roles : roles[k].name = name /\ roles[k].deleted_at # None

\* a soft-deleted user with e-mail `email` is stored
SoftDeletedUserWith(email) ==
    \E u \in DOMAIN users : users[u].email = email /\ users[u].deleted_at # None

\* C40: the repository reads see soft-deleted rows: get and exists by id,
\* exists and get_first by column, all and count; hence create_role with the
\* name of a soft-deleted role and register with the e-mail of a soft-deleted
\* user end with ValidationError and add no row.
C40_SoftDeletedStillSeen ==
    /\ [](/\ \A k \in DOMAIN roles :
                roles[k].deleted_at # None
                   => /\ RoleRepository_get(k) = k
                      /\ RoleRepository_exists_id(k)
                      /\ RoleRepository_exists(roles[k].name)
                      /\ \A rows \in RoleRepository_all(0, Cardinality(DOMAIN roles)) :
                            k \in rows
          /\ \A u \in DOMAIN users :
                users[u].deleted_at # None
                   => /\ UserRepository_get_first(users[u].email) # 0
                      /\ UserRepository_exists(users[u].email))
    /\ [][\A p \in Procs :
             /\ \A name \in RoleNames :
                   (Starts(p, "create_role", name) /\ SoftDeletedRoleNamed(name))
                      => /\ req'[p].pc = "done"
                         /\ req'[p].result = "ValidationError"
                         /\ roles' = roles
             /\ \A e \in AuthEmails :
                   (Starts(p, "register", e) /\ SoftDeletedUserWith(e))
                      => /\ req'[p].pc = "done"
                         /\ req'[p].result = "ValidationError"
                         /\ users' = users /\ accounts' = accounts
         ]_vars

\* C40 witness: a create_role and a register have been refused with
\* ValidationError while the only row with that name, and the only row with
\* that e-mail, is a soft-deleted one
C40_Witness ==
    \E p \in Procs : \E q \in Procs \ {p} :
        /\ Responded(p, "create_role", req[p].arg, {"ValidationError"})
        /\ SoftDeletedRoleNamed(req[p].arg)
        /\ \A k \in DOMAIN roles : roles[k].name = req[p].arg => roles[k].deleted_at # None
        /\ Responded(q, "register", req[q].arg, {"ValidationError"})
        /\ SoftDeletedUserWith(req[q].arg)
        /\ \A u \in DOMAIN users : users[u].email = req[q].arg => users[u].deleted_at # None

====
